---- MODULE Spec2Model ----
(***************************************************************************)
(* State-machine model of the seeding engine of fitonduty-database         *)
(* (src/python/db_manager.py): the upsert persistence layer, the daily     *)
(* generators driven by the process-wide random generator, and the         *)
(* seed_database orchestrator.                                             *)
(*                                                                         *)
(* Tables are sets of rows.  A unique key is never built into the data     *)
(* structure: it exists only through the ON CONFLICT clause of the         *)
(* statement that writes the table, so that a duplicate row is a state    *)
(* the model can reach when a statement lacks the clause.                  *)
(***************************************************************************)
EXTENDS Integers, Sequences, FiniteSets, TLC

VARIABLES
    db,        \* the database: one set of rows per table
    seq,       \* the serial sequences behind the id columns (never rolled back)
    salt,      \* the interpreter's string-hash key (PYTHONHASHSEED), fixed per process
    rng,       \* the process-wide random generator: [seed, n] = seed and draws consumed
    ncalls,    \* number of top-level calls made so far
    last,      \* what the most recent call did (history, for the properties)
    runs,      \* the generation runs seen so far (history, for the properties)
    sd         \* seed_database: its position, its locals and its configuration

vars == <<db, seq, salt, rng, ncalls, last, runs, sd>>

(***************************************************************************)
(* Bounds of the model.                                                    *)
(***************************************************************************)
MaxDate == 2        \* calendar days are numbered 1..MaxDate
MaxCalls == 1       \* top-level calls per behaviour, after the earlier run Init starts from

Dates == 1..MaxDate
None == "None"

(***************************************************************************)
(* The random generator.  random.seed(s) fixes the stream; the k-th draw   *)
(* after it is a function of s and k alone.                                *)
(***************************************************************************)
SeedMod == 16       \* stands for 2**32 in hash(str(user_id)) % 2**32

PyHash(k, s) == s * 31 + k * 17 + 7

Mix(s, n) == (s * 73 + n * 29 + (s + 1) * (n + 1) * 11) % 1009

random_seed(s) == [seed |-> s, n |-> 0]

Advance(r, k) == [r EXCEPT !.n = r.n + k]

\* the value of the k-th draw from r (k >= 1), in lo..hi
randint(r, k, lo, hi) == lo + (Mix(r.seed, r.n + k) % (hi - lo + 1))

\* a normal deviate around mu, in units of sigma/2, cut at three sigma
normalvariate(r, k, mu, half_sigma) == mu + half_sigma * (randint(r, k, 0, 12) - 6)

UserSeed(k, user_id) == PyHash(k, user_id) % SeedMod

(***************************************************************************)
(* Dictionaries are functions on the set of keys that are present.         *)
(***************************************************************************)
ZoneFields == {"very_light_percent", "light_percent", "moderate_percent",
               "intense_percent", "beast_mode_percent"}
MoveFields == {"walking_minutes", "walking_fast_minutes",
               "jogging_minutes", "running_minutes"}

Get(m, k, default) == IF k \in DOMAIN m THEN m[k] ELSE default

\* the element of a one-element set; {F(x) : x \in {e}} computes e once for F
The(S) == CHOOSE x \in S : TRUE

Max2(a, b) == IF a >= b THEN a ELSE b
Min2(a, b) == IF a <= b THEN a ELSE b

(***************************************************************************)
(* calculate_data_volume                                                   *)
(***************************************************************************)
\* the volume would count the child rows save_health_metrics writes
volume_of_written_rows(metrics) ==
    40
    + (IF ZoneFields \subseteq DOMAIN metrics THEN 40 ELSE 0)
    + (IF MoveFields \subseteq DOMAIN metrics THEN 16 ELSE 0)
    + 2304

calculate_data_volume(metrics) ==
    40
    + (IF \E z \in ZoneFields : z \in DOMAIN metrics THEN 40 ELSE 0)
    + (IF \E a \in MoveFields : a \in DOMAIN metrics THEN 16 ELSE 0)
    + 2304

(***************************************************************************)
(* Transactions.  "with engine.begin() as conn" commits what the block     *)
(* executed when the block ends normally and rolls all of it back when an  *)
(* exception leaves the block.  pre is the database when the block was     *)
(* entered, reached the database the executed statements produced.         *)
(***************************************************************************)
BeginAutocommit(pre, reached, raised) == reached

engine_begin(pre, reached, raised) == IF raised THEN pre ELSE reached

(***************************************************************************)
(* The three upserts of save_health_metrics.                               *)
(***************************************************************************)
HmKey(r, user_id, date) == r.user_id = user_id /\ r.date = date

HmRow(id, user_id, date, metrics, data_volume) ==
    [id |-> id, user_id |-> user_id, date |-> date,
     resting_hr |-> Get(metrics, "resting_hr", None),
     max_hr |-> Get(metrics, "max_hr", None),
     sleep_hours |-> Get(metrics, "sleep_hours", None),
     hrv_rest |-> Get(metrics, "hrv_rest", None),
     step_count |-> Get(metrics, "step_count", 0),
     data_volume |-> data_volume]

\* an INSERT whose conflict clause never acts: always a new row
insert_metrics_always(rows, nextid, user_id, date, metrics, data_volume) ==
    [rows |-> rows \cup {HmRow(nextid + 1, user_id, date, metrics, data_volume)},
     seq |-> nextid + 1, id |-> nextid + 1]

\* INSERT INTO health_metrics ... ON CONFLICT (user_id, date) DO UPDATE ... RETURNING id
upsert_metrics_query(rows, nextid, user_id, date, metrics, data_volume) ==
    IF \E r \in rows : HmKey(r, user_id, date)
    THEN LET old == CHOOSE r \in rows : HmKey(r, user_id, date)
         IN  [rows |-> {IF HmKey(r, user_id, date)
                        THEN HmRow(r.id, user_id, date, metrics, data_volume)
                        ELSE r : r \in rows},
              seq |-> nextid, id |-> old.id]
    ELSE [rows |-> rows \cup {HmRow(nextid + 1, user_id, date, metrics, data_volume)},
          seq |-> nextid + 1, id |-> nextid + 1]

ZoneRow(health_metric_id, metrics) ==
    [health_metric_id |-> health_metric_id,
     very_light_percent |-> Get(metrics, "very_light_percent", 0),
     light_percent |-> Get(metrics, "light_percent", 0),
     moderate_percent |-> Get(metrics, "moderate_percent", 0),
     intense_percent |-> Get(metrics, "intense_percent", 0),
     beast_mode_percent |-> Get(metrics, "beast_mode_percent", 0)]

\* INSERT INTO heart_rate_zones ... ON CONFLICT (health_metric_id) DO UPDATE
upsert_zones_query(rows, health_metric_id, metrics) ==
    IF \E r \in rows : r.health_metric_id = health_metric_id
    THEN {IF r.health_metric_id = health_metric_id
          THEN ZoneRow(health_metric_id, metrics) ELSE r : r \in rows}
    ELSE rows \cup {ZoneRow(health_metric_id, metrics)}

MoveRow(health_metric_id, metrics) ==
    [health_metric_id |-> health_metric_id,
     walking_minutes |-> Get(metrics, "walking_minutes", 0),
     walking_fast_minutes |-> Get(metrics, "walking_fast_minutes", 0),
     jogging_minutes |-> Get(metrics, "jogging_minutes", 0),
     running_minutes |-> Get(metrics, "running_minutes", 0)]

\* INSERT INTO movement_speeds ... ON CONFLICT (health_metric_id) DO UPDATE
upsert_movement_query(rows, health_metric_id, metrics) ==
    IF \E r \in rows : r.health_metric_id = health_metric_id
    THEN {IF r.health_metric_id = health_metric_id
          THEN MoveRow(health_metric_id, metrics) ELSE r : r \in rows}
    ELSE rows \cup {MoveRow(health_metric_id, metrics)}

(***************************************************************************)
(* save_health_metrics(engine, user_id, date, metrics).  fail names the    *)
(* statement of the transaction that raises ("none": no statement does).   *)
(* The result holds the database and sequences after the call, the value   *)
(* returned and the statements that were executed.                         *)
(***************************************************************************)
FailPoints == {"none", "metrics", "zones", "movement"}

\* a child is written when some of its fields is present
HasAny(metrics, fields) == \E f \in fields : f \in DOMAIN metrics

\* all(f in metrics for f in fields)
HasAll(metrics, fields) == fields \subseteq DOMAIN metrics

\* the transaction of save_health_metrics once the parent upsert returned up
save_children(d, q, up, metrics, fail) ==
    LET health_metric_id == up.id
        d1 == [d EXCEPT !.health_metrics = up.rows]
        withZones == HasAll(metrics, ZoneFields)
        withMove == HasAll(metrics, MoveFields)
        d2 == IF withZones
              THEN [d1 EXCEPT !.heart_rate_zones =
                        upsert_zones_query(d.heart_rate_zones, health_metric_id, metrics)]
              ELSE d1
        d3 == IF withMove
              THEN [d2 EXCEPT !.movement_speeds =
                        upsert_movement_query(d.movement_speeds, health_metric_id, metrics)]
              ELSE d2
        raisedAt == IF fail = "zones" /\ withZones THEN 2
                    ELSE IF fail = "movement" /\ withMove THEN 3
                    ELSE 0
        reached == CASE raisedAt = 2 -> d1
                     [] raisedAt = 3 -> d2
                     [] OTHER -> d3
    IN  [db |-> engine_begin(d, reached, raisedAt # 0),
         seq |-> [q EXCEPT !.health_metrics = up.seq],
         ok |-> raisedAt = 0,
         executed |-> {"health_metrics"}
                      \cup (IF withZones /\ raisedAt # 2 THEN {"heart_rate_zones"} ELSE {})
                      \cup (IF withMove /\ raisedAt = 0 THEN {"movement_speeds"} ELSE {}),
         id |-> health_metric_id]

save_health_metrics(d, q, user_id, date, metrics, fail) ==
    IF user_id <= 0 \/ DOMAIN metrics = {}
    THEN [db |-> d, seq |-> q, ok |-> FALSE, executed |-> {}, id |-> 0]
    ELSE IF fail = "metrics"
    THEN [db |-> engine_begin(d, d, TRUE), seq |-> q, ok |-> FALSE,
          executed |-> {}, id |-> 0]
    ELSE The({save_children(d, q, up, metrics, fail) :
                up \in {upsert_metrics_query(d.health_metrics, q.health_metrics,
                                             user_id, date, metrics,
                                             calculate_data_volume(metrics))}})

(***************************************************************************)
(* import_mock_data: the values generated for one user and one day.        *)
(* Fractions are fixed point: hours in tenths, the raw zone values in      *)
(* tenths of a percent, the normalised zone percentages in thousandths of  *)
(* a percent, the movement proportions in hundredths.                      *)
(***************************************************************************)
BaseDraws == 5      \* random calls that make the user's base values
DayDraws == 14      \* random calls that make one day's metrics

Weekday(date) == (date - 1) % 7

base_values(r) ==
    [resting_hr_base |-> randint(r, 1, 55, 70),
     max_hr_base |-> randint(r, 2, 140, 180),
     sleep_base |-> randint(r, 3, 65, 85),
     hrv_base |-> randint(r, 4, 40, 80),
     step_count_base |-> randint(r, 5, 6000, 12000)]

Clamp(lo, hi, v) == Max2(lo, Min2(hi, v))

\* v / zone_sum * 100 when zone_sum > 0, else the values as they are
normalize_zones(zone_values) ==
    LET zone_sum == zone_values[1] + zone_values[2] + zone_values[3]
                    + zone_values[4] + zone_values[5]
    IN  IF zone_sum > 0
        THEN [i \in 1..5 |-> (zone_values[i] * 100000) \div zone_sum]
        ELSE [i \in 1..5 |-> zone_values[i] * 100]

\* The proportions are binary floating-point numbers: the quotient
\* pct / total_pct is rounded to the nearest representable fraction, here one
\* of FloatScale-ths, before int(total_active_minutes * pct) truncates.
FloatScale == 1048576

\* a / b rounded to the nearest integer, halves to the even one
RoundDiv(a, b) ==
    LET q == a \div b
        m == a % b
    IN  IF 2 * m > b \/ (2 * m = b /\ q % 2 = 1) THEN q + 1 ELSE q

\* pct /= total_pct, then int(total_active_minutes * pct), for the four
\* activities; the proportions drawn are in hundredths
movement_minutes(total_active_minutes, walking_pct, walking_fast_pct, jogging_pct) ==
    LET running_pct == Max2(1, 100 - walking_pct - walking_fast_pct - jogging_pct)
        total_pct == walking_pct + walking_fast_pct + jogging_pct + running_pct
        Minutes(pct) ==
            (total_active_minutes * RoundDiv(pct * FloatScale, total_pct)) \div FloatScale
    IN  <<Minutes(walking_pct), Minutes(walking_fast_pct), Minutes(jogging_pct),
          Minutes(running_pct)>>

day_record(r, base, date, zone_values, minutes) ==
    [resting_hr |-> base.resting_hr_base + randint(r, 1, -5, 6),
     max_hr |-> base.max_hr_base + randint(r, 2, -10, 11),
     sleep_hours |-> Max2(0, normalvariate(r, 3, base.sleep_base, 3)),
     hrv_rest |-> Max2(10, base.hrv_base + randint(r, 4, -15, 16)),
     step_count |-> (IF Weekday(date) >= 5 THEN (base.step_count_base * 8) \div 10
                                           ELSE base.step_count_base)
                    + randint(r, 5, -2000, 3000),
     very_light_percent |-> zone_values[1],
     light_percent |-> zone_values[2],
     moderate_percent |-> zone_values[3],
     intense_percent |-> zone_values[4],
     beast_mode_percent |-> zone_values[5],
     walking_minutes |-> minutes[1],
     walking_fast_minutes |-> minutes[2],
     jogging_minutes |-> minutes[3],
     running_minutes |-> minutes[4]]

\* base_percentages, in tenths of a percent
base_percentages == <<300, 250, 200, 150, 100>>

\* max(0, min(100, base_pct + noise)) for the five zones, then normalised
zone_percentages(noise) ==
    normalize_zones([i \in 1..5 |-> Clamp(0, 1000, base_percentages[i] + noise[i])])

day_metrics(r, base, date) ==
    The({day_record(r, base, date, zone_values, minutes) :
            zone_values \in {zone_percentages(
                [i \in 1..5 |-> normalvariate(r, 5 + i, 0, 25)])},
            minutes \in {movement_minutes(randint(r, 11, 30, 180), randint(r, 12, 40, 70),
                                          randint(r, 13, 15, 35), randint(r, 14, 5, 25))}})

(***************************************************************************)
(* import_mock_data(engine, user_id, start_date, end_date, overwrite).     *)
(* st is the state the loop threads: database, sequences, generator,       *)
(* success_count and the list of save_health_metrics calls made.  fails    *)
(* gives, per date, the statement of that date's transaction that raises;  *)
(* qfail says that the query for the existing dates raises.                *)
(***************************************************************************)
\* the loop state after the save of one date returned res
after_save(st, date, metrics, res) ==
    [db |-> res.db,
     seq |-> res.seq,
     rng |-> Advance(st.rng, DayDraws),
     success_count |-> st.success_count + (IF res.ok THEN 1 ELSE 0),
     saves |-> Append(st.saves, [date |-> date, metrics |-> metrics, ok |-> res.ok,
                                 executed |-> res.executed])]

save_day(st, user_id, date, metrics, fail) ==
    The({after_save(st, date, metrics, res) :
            res \in {save_health_metrics(st.db, st.seq, user_id, date, metrics, fail)}})

\* the statement of the save of date that raises ("none" when none does)
FailOf(fails, date) == IF date \in DOMAIN fails THEN fails[date] ELSE "none"

RECURSIVE import_loop(_, _, _, _, _, _, _)
import_loop(st, user_id, date, end_date, skip_dates, base, fails) ==
    IF date > end_date THEN st
    ELSE IF date \in skip_dates
    THEN import_loop(st, user_id, date + 1, end_date, skip_dates, base, fails)
    ELSE The({import_loop(st2, user_id, date + 1, end_date, skip_dates, base, fails) :
                st2 \in {The({save_day(st, user_id, date, metrics, FailOf(fails, date)) :
                                metrics \in {day_metrics(st.rng, base, date)}})}})

\* SELECT date FROM health_metrics WHERE user_id = :user_id AND date BETWEEN ...
existing_dates(d, user_id, start_date, end_date) ==
    {r.date : r \in {x \in d.health_metrics :
                        x.user_id = user_id /\ x.date >= start_date /\ x.date <= end_date}}

\* the existing dates are skipped whatever the overwrite flag says
skip_dates_always(d, user_id, start_date, end_date, overwrite, qfail) ==
    IF qfail THEN {} ELSE existing_dates(d, user_id, start_date, end_date)

skip_dates_of(d, user_id, start_date, end_date, overwrite, qfail) ==
    IF overwrite \/ qfail THEN {}
    ELSE existing_dates(d, user_id, start_date, end_date)

import_result(st) ==
    [db |-> st.db, seq |-> st.seq, rng |-> st.rng,
     ret |-> st.success_count > 0,
     success_count |-> st.success_count,
     saves |-> st.saves, exit |-> "done"]

\* import_mock_data once the user was found and the range is in order: the
\* generator is seeded and the dates are generated and saved
import_range(d, q, r, k, user_id, start_date, end_date, overwrite, qfail, fails) ==
         The({import_result(st) :
                st \in {The({import_loop([db |-> d, seq |-> q,
                                          rng |-> Advance(random_seed(UserSeed(k, user_id)),
                                                          BaseDraws),
                                          success_count |-> 0, saves |-> <<>>],
                                         user_id, start_date, end_date,
                                         skip_dates_of(d, user_id, start_date, end_date,
                                                       overwrite, qfail),
                                         base, fails) :
                              base \in {base_values(random_seed(UserSeed(k, user_id)))}})}})

\* the range is generated without looking for the user or at the range
import_unchecked(d, q, r, k, user_id, start_date, end_date, overwrite, qfail, fails) ==
    import_range(d, q, r, k, user_id, start_date, end_date, overwrite, qfail, fails)

import_mock_data(d, q, r, k, user_id, start_date, end_date, overwrite, qfail, fails) ==
    IF ~ \E u \in d.users : u.id = user_id
    THEN [db |-> d, seq |-> q, rng |-> r, ret |-> FALSE, success_count |-> 0,
          saves |-> <<>>, exit |-> "no_user"]
    ELSE IF start_date > end_date
    THEN [db |-> d, seq |-> q, rng |-> r, ret |-> FALSE, success_count |-> 0,
          saves |-> <<>>, exit |-> "bad_range"]
    ELSE import_range(d, q, r, k, user_id, start_date, end_date, overwrite, qfail, fails)

(***************************************************************************)
(* generate_questionnaire_data(user_id, start_date, end_date): draws from  *)
(* the process-wide generator as it stands (the function does not seed     *)
(* it).  Scores are computed in tenths and rounded to integers.            *)
(***************************************************************************)
QBaseDraws == 6     \* random calls that make the user's baselines

\* Python's round(): to the nearest integer, halves to the even one
Round10(v) ==
    LET q == v \div 10
        m == v % 10
    IN  IF m > 5 \/ (m = 5 /\ q % 2 = 1) THEN q + 1 ELSE q

RECURSIVE questionnaire_loop(_, _, _, _, _, _)
questionnaire_loop(r, user_id, current_date, end_date, b, acc) ==
    IF current_date > end_date THEN [data |-> acc, rng |-> r]
    ELSE IF randint(r, 1, 0, 99) < 15
    THEN questionnaire_loop(Advance(r, 1), user_id, current_date + 1, end_date, b, acc)
    ELSE LET day_of_week == Weekday(current_date)
             weekend_sleep_bonus == IF day_of_week >= 5 THEN 5 ELSE 0
             weekend_motivation_penalty == IF day_of_week >= 5 THEN -3 ELSE 0
             weekly_fatigue_increase == (day_of_week * 15) \div 6
             sleep_quality == Clamp(0, 1000,
                 normalvariate(r, 2, b.base_sleep_quality + weekend_sleep_bonus,
                               b.sleep_variability \div 2))
             fatigue_level == Clamp(0, 1000,
                 normalvariate(r, 3, b.base_fatigue + weekly_fatigue_increase,
                               b.fatigue_variability \div 2))
             motivation_level == Clamp(0, 1000,
                 normalvariate(r, 4, b.base_motivation + weekend_motivation_penalty,
                               b.motivation_variability \div 2))
         IN  questionnaire_loop(Advance(r, 4), user_id, current_date + 1, end_date, b,
                 Append(acc, [user_id |-> user_id, date |-> current_date,
                              perceived_sleep_quality |-> Round10(sleep_quality),
                              fatigue_level |-> Round10(fatigue_level),
                              motivation_level |-> Round10(motivation_level)]))

generate_questionnaire_data(r, user_id, start_date, end_date) ==
    LET b == [base_sleep_quality |-> randint(r, 1, 600, 800),
              base_fatigue |-> randint(r, 2, 300, 600),
              base_motivation |-> randint(r, 3, 600, 850),
              sleep_variability |-> randint(r, 4, 100, 250),
              fatigue_variability |-> randint(r, 5, 150, 300),
              motivation_variability |-> randint(r, 6, 100, 200)]
    IN  questionnaire_loop(Advance(r, QBaseDraws), user_id, start_date, end_date, b, <<>>)

(***************************************************************************)
(* insert_questionnaire_data(engine, questionnaire_data): every record is  *)
(* executed on one connection and conn.commit() follows the loop, so an    *)
(* exception before the commit leaves nothing committed.  failAt is the    *)
(* index of the record whose statement raises (0: none).                   *)
(***************************************************************************)
\* "with engine.connect() as conn": only what conn.commit() is reached for stays
engine_connect(pre, reached, committed) == IF committed THEN reached ELSE pre

QKey(r, data) == r.user_id = data.user_id /\ r.date = data.date

\* INSERT without a conflict clause that acts
insert_always(rows, data) == rows \cup {data}

\* INSERT INTO questionnaire_data ... ON CONFLICT (user_id, date) DO UPDATE SET ...
insert_query(rows, data) ==
    IF \E r \in rows : QKey(r, data)
    THEN {IF QKey(r, data) THEN data ELSE r : r \in rows}
    ELSE rows \cup {data}

RECURSIVE execute_each(_, _, _, _)
execute_each(rows, questionnaire_data, i, stop) ==
    IF i > Len(questionnaire_data) \/ i = stop THEN rows
    ELSE execute_each(insert_query(rows, questionnaire_data[i]),
                      questionnaire_data, i + 1, stop)

insert_questionnaire_data(d, questionnaire_data, failAt) ==
    LET raised == failAt \in 1..Len(questionnaire_data)
        reached == [d EXCEPT !.questionnaire_data =
                        execute_each(d.questionnaire_data, questionnaire_data, 1, failAt)]
    IN  [db |-> engine_connect(d, reached, ~raised), ok |-> ~raised]

(***************************************************************************)
(* generate_mock_anomaly_data(user_id, start_date, end_date,               *)
(* interval_minutes).  Scores are in ten-thousandths (round(score, 4)),    *)
(* the time-of-day factors in hundredths.  The records come in the order   *)
(* of the two loops; record number i (from 1) is slot (i-1) % slots_per_day *)
(* of day (i-1) \div slots_per_day, and its draws follow those of the      *)
(* records before it: one each, and two more for every spike among them.   *)
(***************************************************************************)
ABaseDraws == 6     \* random calls that make the user's parameters
MaxSpikes == 3      \* k = min(3, len(date_range))
Labels == <<"Activity spike", "Sleep disruption", "Stress event", None>>

RemoveAt(sq, j) == SubSeq(sq, 1, j - 1) \o SubSeq(sq, j + 1, Len(sq))

\* random.sample(pool, k): k distinct elements, each picked by one draw
RECURSIVE random_sample(_, _, _, _)
random_sample(r, off, pool, k) ==
    IF k = 0 THEN <<>>
    ELSE LET j == randint(r, off + 1, 1, Len(pool))
         IN  <<pool[j]>> \o random_sample(r, off + 1, RemoveAt(pool, j), k - 1)

generate_mock_anomaly_data(k, user_id, start_date, end_date, interval_minutes) ==
    LET days == end_date - start_date + 1
        slots_per_day == (24 * 60) \div interval_minutes
        date_range == [i \in 1..days |-> start_date + i - 1]
        r == random_seed(UserSeed(k, user_id))
        base_anomaly_level == randint(r, 1, 1000, 3000)
        variability == randint(r, 2, 500, 1500)
        morning_factor == randint(r, 3, 80, 120)
        afternoon_factor == randint(r, 4, 80, 120)
        evening_factor == randint(r, 5, 80, 120)
        night_factor == randint(r, 6, 80, 120)
        nspikes == Min2(MaxSpikes, days)
        anomaly_days == random_sample(r, ABaseDraws, date_range, nspikes)
        anomaly_times == [i \in 1..nspikes |->
                            randint(r, ABaseDraws + nspikes + i, 0, slots_per_day - 1)]
        off == ABaseDraws + 2 * nspikes
        \* the record numbers of the spikes
        spikes == {(anomaly_days[i] - start_date) * slots_per_day + anomaly_times[i] + 1 :
                        i \in 1..nspikes}
        record(i) ==
            LET date == start_date + ((i - 1) \div slots_per_day)
                slot == (i - 1) % slots_per_day
                time_minutes == slot * interval_minutes
                hour == time_minutes \div 60
                time_factor == IF 6 <= hour /\ hour < 12 THEN morning_factor
                               ELSE IF 12 <= hour /\ hour < 18 THEN afternoon_factor
                               ELSE IF 18 <= hour /\ hour < 22 THEN evening_factor
                               ELSE night_factor
                at == off + (i - 1) + 2 * Cardinality({p \in spikes : p < i})
                base_score == (base_anomaly_level * time_factor) \div 100
                score == Clamp(0, 10000, normalvariate(r, at + 1, base_score,
                                                       variability \div 2))
            IN  IF i \in spikes
                THEN [date |-> date, time_slot |-> time_minutes,
                      score |-> Min2(10000, score + randint(r, at + 2, 3000, 7000)),
                      label |-> Labels[randint(r, at + 3, 1, 4)]]
                ELSE [date |-> date, time_slot |-> time_minutes,
                      score |-> score, label |-> None]
        n == days * slots_per_day
    IN  [data |-> [i \in 1..n |-> record(i)],
         rng |-> Advance(r, off + n + 2 * nspikes),
         spikes |-> spikes]

(***************************************************************************)
(* save_anomaly_scores(engine, user_id, anomaly_data): the batches of      *)
(* batch_size records are executed inside one "with engine.begin()".       *)
(* failBatch is the number of the batch whose execute raises (0: none).    *)
(* The list holds each (date, time_slot) once, as the generator builds it. *)
(***************************************************************************)
batch_size == 1000

AKey(r) == <<r.user_id, r.date, r.time_slot>>

AnomalyRows(user_id, anomaly_data, from, to) ==
    {[user_id |-> user_id, date |-> anomaly_data[i].date,
      time_slot |-> anomaly_data[i].time_slot,
      score |-> anomaly_data[i].score, label |-> anomaly_data[i].label] : i \in from..to}

\* INSERT without a conflict clause that acts
execute_insert_only(rows, params) == rows \cup params

\* INSERT INTO anomaly_scores ... ON CONFLICT (user_id, date, time_slot) DO UPDATE SET
\* score = EXCLUDED.score, label = EXCLUDED.label, for every record of params
execute_query(rows, params) ==
    LET keys == {AKey(b) : b \in params}
    IN  {r \in rows : AKey(r) \notin keys} \cup params

RECURSIVE execute_batches(_, _, _, _, _)
execute_batches(rows, user_id, anomaly_data, i, stop) ==
    IF i > Len(anomaly_data) \/ (i - 1) \div batch_size + 1 = stop THEN rows
    ELSE execute_batches(
            execute_query(rows, AnomalyRows(user_id, anomaly_data, i,
                                            Min2(i + batch_size - 1, Len(anomaly_data)))),
            user_id, anomaly_data, i + batch_size, stop)

NumBatches(anomaly_data) == (Len(anomaly_data) + batch_size - 1) \div batch_size

\* every batch in a transaction of its own: the batches before the failing one stay
save_anomaly_per_batch(d, user_id, anomaly_data, failBatch) ==
    IF Len(anomaly_data) = 0 THEN [db |-> d, count |-> 0, executed |-> 0]
    ELSE LET raised == failBatch \in 1..NumBatches(anomaly_data)
         IN  [db |-> [d EXCEPT !.anomaly_scores =
                        execute_batches(d.anomaly_scores, user_id, anomaly_data,
                                        1, failBatch)],
              count |-> IF raised THEN 0 ELSE Len(anomaly_data),
              executed |-> IF raised THEN failBatch - 1 ELSE NumBatches(anomaly_data)]

save_anomaly_scores(d, user_id, anomaly_data, failBatch) ==
    IF Len(anomaly_data) = 0 THEN [db |-> d, count |-> 0, executed |-> 0]
    ELSE LET raised == failBatch \in 1..NumBatches(anomaly_data)
             reached == [d EXCEPT !.anomaly_scores =
                            execute_batches(d.anomaly_scores, user_id, anomaly_data,
                                            1, failBatch)]
         IN  [db |-> engine_begin(d, reached, raised),
              count |-> IF raised THEN 0 ELSE Len(anomaly_data),
              executed |-> IF raised THEN failBatch - 1 ELSE NumBatches(anomaly_data)]

(***************************************************************************)
(* The callers' inputs.                                                    *)
(***************************************************************************)
\* interpreters: the string-hash key and the seed the generator starts from
Processes == {[salt |-> 0, seed |-> 3], [salt |-> 1, seed |-> 11]}
UserIds == {1, 2}           \* users present from the start
AskedIds == {1, 2, 3}       \* ids a caller may pass (3: no such user)
NoFails == [d \in Dates |-> "none"]

ParentPart(v) ==
    [resting_hr |-> 60 + v, max_hr |-> 150 + v, sleep_hours |-> 70 + v,
     hrv_rest |-> 50 + v, step_count |-> 8000 + v]
ZonePart(v) ==
    [very_light_percent |-> 31000 + v, light_percent |-> 24000 - v,
     moderate_percent |-> 20000, intense_percent |-> 15000,
     beast_mode_percent |-> 10000]
MovePart(v) ==
    [walking_minutes |-> 31 + v, walking_fast_minutes |-> 15,
     jogging_minutes |-> 10, running_minutes |-> 5]
Without(m, k) == [x \in (DOMAIN m) \ {k} |-> m[x]]
EmptyDict == [x \in {} |-> 0]

\* metrics dictionaries a direct caller passes: both children whole, one of
\* them short of a field, both absent, and the empty dictionary
MetricInputs ==
    {ParentPart(0) @@ ZonePart(0) @@ MovePart(0),
     ParentPart(1) @@ Without(ZonePart(1), "light_percent") @@ MovePart(1),
     ParentPart(1) @@ ZonePart(1) @@ Without(MovePart(1), "running_minutes"),
     ParentPart(1),
     EmptyDict}

EmptyDb ==
    [users |-> {}, groups |-> {}, user_groups |-> {}, health_metrics |-> {},
     heart_rate_zones |-> {}, movement_speeds |-> {}, questionnaire_data |-> {},
     anomaly_scores |-> {}]

\* werkzeug's generate_password_hash, an opaque one-way function
generate_password_hash(password) == <<"pbkdf2", password>>

UserName(i) == IF i = 1 THEN "p1" ELSE "p2"

FirstDb ==
    [EmptyDb EXCEPT !.users =
        {[id |-> i, username |-> UserName(i),
          password_hash |-> generate_password_hash(0), role |-> "participant"] :
            i \in UserIds}]
FirstSeq == [users |-> 2, groups |-> 0, health_metrics |-> 0]

Idle == [pc |-> "idle"]

HealthRun(user_id, start_date, end_date, skipped, saves) ==
    [kind |-> "health", user_id |-> user_id, start_date |-> start_date,
     end_date |-> end_date, skipped |-> skipped,
     out |-> [i \in 1..Len(saves) |-> <<saves[i].date, saves[i].metrics>>]]

AnomalyRun(user_id, start_date, end_date, interval_minutes, anomaly_data) ==
    [kind |-> "anomaly", user_id |-> user_id, start_date |-> start_date,
     end_date |-> end_date, skipped |-> {interval_minutes}, out |-> anomaly_data]

(***************************************************************************)
(* The database a process finds: as created, or as an earlier process (an  *)
(* interpreter with its own string-hash key k0 and generator r0) left it   *)
(* after generating the first user's data over a range, the way the last   *)
(* stage of seed_database does: health metrics, questionnaires, anomaly    *)
(* scores.                                                                 *)
(***************************************************************************)
EarlierRun(k0, r0, user_id, start_date, end_date, interval_minutes) ==
    LET imp == import_mock_data(FirstDb, FirstSeq, r0, k0, user_id, start_date, end_date,
                                FALSE, FALSE, NoFails)
        qgen == generate_questionnaire_data(imp.rng, user_id, start_date, end_date)
        qins == insert_questionnaire_data(imp.db, qgen.data, 0)
        agen == generate_mock_anomaly_data(k0, user_id, start_date, end_date,
                                           interval_minutes)
        asav == save_anomaly_scores(qins.db, user_id, agen.data, 0)
    IN  [db |-> asav.db, seq |-> imp.seq,
         runs |-> {HealthRun(user_id, start_date, end_date, {}, imp.saves),
                   AnomalyRun(user_id, start_date, end_date, interval_minutes, agen.data)}]

Found(intervals) ==
    {[db |-> FirstDb, seq |-> FirstSeq, runs |-> {}]}
    \cup {EarlierRun(0, random_seed(3), 1, ab[1], ab[2], iv) :
            ab \in {x \in Dates \X Dates : x[1] <= x[2]}, iv \in intervals}

InitWith(intervals) ==
    /\ \E f \in Found(intervals) :
        /\ db = f.db
        /\ seq = f.seq
        /\ runs = f.runs
    /\ \E p \in Processes :
        /\ salt = p.salt
        /\ rng = random_seed(p.seed)
    /\ ncalls = 0
    /\ last = [op |-> "none"]
    /\ sd = Idle

Init == InitWith({720})

\* at most one date of a call fails, at the statement stmt
FailsAt(failDate, stmt) == [d \in Dates |-> IF d = failDate THEN stmt ELSE "none"]

ImportMockData ==
    \E user_id \in AskedIds, start_date \in Dates, end_date \in Dates,
       overwrite \in BOOLEAN, qfail \in BOOLEAN, failDate \in 0..MaxDate,
       stmt \in {"metrics", "movement"} :
        /\ sd.pc = "idle"
        /\ ncalls < MaxCalls
        \* inputs that cannot differ in effect are taken once
        /\ overwrite => ~qfail
        /\ failDate = 0 => stmt = "metrics"
        /\ failDate # 0 => (start_date <= failDate /\ failDate <= end_date)
        /\ (user_id \notin UserIds \/ start_date > end_date)
                => (~overwrite /\ ~qfail /\ failDate = 0)
        /\ user_id \notin UserIds => (start_date = 1 /\ end_date = 1)
        /\ \E res \in {import_mock_data(db, seq, rng, salt, user_id, start_date, end_date,
                                        overwrite, qfail, FailsAt(failDate, stmt))} :
               /\ db' = res.db
               /\ seq' = res.seq
               /\ rng' = res.rng
               /\ last' = [op |-> "import_mock_data", user_id |-> user_id,
                           start_date |-> start_date, end_date |-> end_date,
                           overwrite |-> overwrite, pre |-> db,
                           present |-> existing_dates(db, user_id, start_date, end_date),
                           ret |-> res.ret, success_count |-> res.success_count,
                           saves |-> res.saves, exit |-> res.exit]
               /\ runs' = IF res.exit = "done"
                          THEN runs \cup {HealthRun(user_id, start_date, end_date,
                                            skip_dates_of(db, user_id, start_date,
                                                          end_date, overwrite, qfail),
                                            res.saves)}
                          ELSE runs
        /\ ncalls' = ncalls + 1
        /\ UNCHANGED <<salt, sd>>

SaveHealthMetrics ==
    \E user_id \in {0} \cup UserIds, date \in Dates, metrics \in MetricInputs,
       fail \in FailPoints :
        /\ sd.pc = "idle"
        /\ ncalls < MaxCalls
        \* inputs that cannot differ in effect are taken once
        /\ (user_id = 0 \/ metrics = EmptyDict) => (fail = "none" /\ date = 1)
        /\ fail = "zones" => ZoneFields \subseteq DOMAIN metrics
        /\ fail = "movement" => MoveFields \subseteq DOMAIN metrics
        /\ \E res \in {save_health_metrics(db, seq, user_id, date, metrics, fail)} :
               /\ db' = res.db
               /\ seq' = res.seq
               /\ last' = [op |-> "save_health_metrics", user_id |-> user_id,
                           date |-> date, metrics |-> metrics, pre |-> db,
                           ok |-> res.ok, executed |-> res.executed, id |-> res.id]
        /\ ncalls' = ncalls + 1
        /\ UNCHANGED <<salt, rng, runs, sd>>

Questionnaire ==
    \E user_id \in UserIds, start_date \in Dates, end_date \in Dates, failAt \in 0..MaxDate :
        /\ sd.pc = "idle"
        /\ ncalls < MaxCalls
        /\ start_date <= end_date
        /\ \E gen \in {generate_questionnaire_data(rng, user_id, start_date, end_date)} :
             \E res \in {insert_questionnaire_data(db, gen.data, failAt)} :
               /\ failAt <= Len(gen.data)
               /\ db' = res.db
               /\ rng' = gen.rng
               /\ last' = [op |-> "insert_questionnaire_data", user_id |-> user_id,
                           questionnaire_data |-> gen.data, pre |-> db, ok |-> res.ok]
        /\ ncalls' = ncalls + 1
        /\ UNCHANGED <<seq, salt, runs, sd>>

AnomalyCall(intervals) ==
    \E user_id \in UserIds, start_date \in Dates, end_date \in Dates,
       interval_minutes \in intervals, failBatch \in 0..3 :
        /\ sd.pc = "idle"
        /\ ncalls < MaxCalls
        /\ start_date <= end_date
        /\ \E gen \in {generate_mock_anomaly_data(salt, user_id, start_date, end_date,
                                                  interval_minutes)} :
             \E res \in {save_anomaly_scores(db, user_id, gen.data, failBatch)} :
               /\ failBatch <= NumBatches(gen.data)
               /\ db' = res.db
               /\ rng' = gen.rng
               /\ last' = [op |-> "save_anomaly_scores", user_id |-> user_id,
                           anomaly_data |-> gen.data, spikes |-> gen.spikes,
                           failBatch |-> failBatch,
                           pre |-> db, count |-> res.count, executed |-> res.executed]
               /\ runs' = runs \cup {AnomalyRun(user_id, start_date, end_date,
                                                interval_minutes, gen.data)}
        /\ ncalls' = ncalls + 1
        /\ UNCHANGED <<seq, salt, sd>>

Anomaly == AnomalyCall({720})

Next ==
    \/ ImportMockData
    \/ SaveHealthMetrics
    \/ Questionnaire
    \/ Anomaly

Spec == Init /\ [][Next]_vars

(***************************************************************************)
(* Properties of the generators and of the persistence layer.              *)
(***************************************************************************)
InRange(r, user_id, a, b) == r.user_id = user_id /\ a <= r.date /\ r.date <= b

ChildrenOf(children, parents) ==
    {c \in children : \E r \in parents : r.id = c.health_metric_id}

\* the health rows of d other than those of user_id within a..b, with their children
HealthOutside(d, user_id, a, b) ==
    LET parents == {r \in d.health_metrics : ~InRange(r, user_id, a, b)}
    IN  <<parents, ChildrenOf(d.heart_rate_zones, parents),
          ChildrenOf(d.movement_speeds, parents)>>

\* the health rows of d of user_id on date, with their children
HealthOn(d, user_id, date) ==
    LET parents == {r \in d.health_metrics : InRange(r, user_id, date, date)}
    IN  <<parents, ChildrenOf(d.heart_rate_zones, parents),
          ChildrenOf(d.movement_speeds, parents)>>

HealthTables(d) == <<d.health_metrics, d.heart_rate_zones, d.movement_speeds>>

ImportDone == last.op = "import_mock_data" /\ last.exit = "done"

AllPresent == last.present = last.start_date..last.end_date

\* C1: a skip-policy import_mock_data over a range whose dates all hold a row
\* calls save_health_metrics for no date and leaves health_metrics,
\* heart_rate_zones and movement_speeds as they were.
C1_SkipWritesNothing ==
    (ImportDone /\ ~last.overwrite /\ AllPresent)
        => /\ Len(last.saves) = 0
           /\ last.success_count = 0
           /\ HealthTables(db) = HealthTables(last.pre)

\* C2: an overwrite import_mock_data over R calls save_health_metrics once for
\* every date of R, in order, whatever rows exist; it reports |R| days when
\* every save succeeds; and it changes no health, zone or movement row of
\* the user outside R nor any row of another user.
C2_OverwriteExactlyRange ==
    (ImportDone /\ last.overwrite)
        => /\ Len(last.saves) = last.end_date - last.start_date + 1
           /\ \A i \in 1..Len(last.saves) : last.saves[i].date = last.start_date + i - 1
           /\ (\A i \in 1..Len(last.saves) : last.saves[i].ok)
                => last.success_count = last.end_date - last.start_date + 1
           /\ HealthOutside(db, last.user_id, last.start_date, last.end_date)
                = HealthOutside(last.pre, last.user_id, last.start_date, last.end_date)
           /\ db.questionnaire_data = last.pre.questionnaire_data
           /\ db.anomaly_scores = last.pre.anomaly_scores
           /\ db.users = last.pre.users

\* an overwrite over a range with rows inside and outside it, all saves successful
C2_Witness ==
    /\ ImportDone /\ last.overwrite
    /\ last.present # {}
    /\ last.success_count = last.end_date - last.start_date + 1
    /\ HealthOutside(last.pre, last.user_id, last.start_date, last.end_date)[1] # {}
    /\ HealthTables(db) # HealthTables(last.pre)

Unique(rows, Key(_)) == \A r1, r2 \in rows : Key(r1) = Key(r2) => r1 = r2

HmKeyOf(r) == <<r.user_id, r.date>>
ChildKeyOf(r) == r.health_metric_id
QKeyOf(r) == <<r.user_id, r.date>>

\* C3: whatever calls were made there is at most one health_metrics row per
\* (user, date), one heart_rate_zones and one movement_speeds row per health
\* metric, one questionnaire row per (user, date) and one anomaly row per
\* (user, date, time_slot).
C3_NoDuplicates ==
    /\ Unique(db.health_metrics, HmKeyOf)
    /\ Unique(db.heart_rate_zones, ChildKeyOf)
    /\ Unique(db.movement_speeds, ChildKeyOf)
    /\ Unique(db.questionnaire_data, QKeyOf)
    /\ Unique(db.anomaly_scores, AKey)

\* a call wrote a key that was there already, with other values
C3_Witness ==
    \/ /\ ImportDone /\ last.overwrite /\ last.present # {} /\ last.success_count > 0
       /\ db.health_metrics # last.pre.health_metrics
    \/ /\ last.op = "save_anomaly_scores" /\ last.count > 0
       /\ \E r \in last.pre.anomaly_scores : r \notin db.anomaly_scores
    \/ /\ last.op = "insert_questionnaire_data" /\ last.ok
       /\ \E r \in last.pre.questionnaire_data : r \notin db.questionnaire_data

\* C4: two generation runs for the same user and range (and the same skipped
\* dates) produce the same records, in whatever process each was made.
C4_SameRecordsInAnyProcess ==
    \A r1, r2 \in runs :
        (r1.kind = r2.kind /\ r1.user_id = r2.user_id /\ r1.start_date = r2.start_date
            /\ r1.end_date = r2.end_date /\ r1.skipped = r2.skipped)
        => r1.out = r2.out

SavedWhole(d, user_id, sv) ==
    \E r \in d.health_metrics :
        /\ r = HmRow(r.id, user_id, sv.date, sv.metrics, calculate_data_volume(sv.metrics))
        /\ ZoneRow(r.id, sv.metrics) \in d.heart_rate_zones
        /\ MoveRow(r.id, sv.metrics) \in d.movement_speeds

\* C7: a save_health_metrics call that fails leaves the three tables as they
\* were before it, also when the parent upsert had succeeded, and returns
\* False; within import_mock_data the dates saved before a failing date stay
\* stored and the failing date keeps the rows it had before the call.
C7_AllOrNothing ==
    /\ (last.op = "save_health_metrics" /\ ~last.ok)
            => HealthTables(db) = HealthTables(last.pre)
    /\ ImportDone
            => \A i \in 1..Len(last.saves) :
                  IF last.saves[i].ok
                  THEN SavedWhole(db, last.user_id, last.saves[i])
                  ELSE HealthOn(db, last.user_id, last.saves[i].date)
                        = HealthOn(last.pre, last.user_id, last.saves[i].date)

\* within one import a date was saved whole, and a later date that held a row
\* had its parent upserted and then a child statement raise
C7_Witness ==
    /\ ImportDone
    /\ \E i, j \in 1..Len(last.saves) :
        /\ i < j
        /\ last.saves[i].ok
        /\ ~last.saves[j].ok
        /\ "health_metrics" \in last.saves[j].executed
        /\ last.saves[j].date \in last.present

\* the dictionary holds every field of fields / some field of fields
Whole(metrics, fields) == \A f \in fields : f \in DOMAIN metrics
Part(metrics, fields) == fields \cap DOMAIN metrics # {}

ParentIds(d) == {r.id : r \in d.health_metrics}

ChildAsAsked(children, pre_children, id, metrics, fields, Row(_, _)) ==
    IF Whole(metrics, fields)
    THEN Row(id, metrics) \in children
    ELSE children = pre_children

\* C9: every zone and movement row references a health_metrics row; after a
\* successful save_health_metrics the zone row of the returned id holds the
\* input's five percentages iff all five are present and the movement row
\* its four minute values iff all four are present, each independently of
\* the other; a child short of a field is neither written nor modified.
C9_ChildrenAfterParent ==
    /\ \A c \in db.heart_rate_zones \cup db.movement_speeds :
            c.health_metric_id \in ParentIds(db)
    /\ (last.op = "save_health_metrics" /\ last.ok)
        => /\ last.id \in ParentIds(db)
           /\ ("heart_rate_zones" \in last.executed) = Whole(last.metrics, ZoneFields)
           /\ ("movement_speeds" \in last.executed) = Whole(last.metrics, MoveFields)
           /\ ChildAsAsked(db.heart_rate_zones, last.pre.heart_rate_zones, last.id,
                           last.metrics, ZoneFields, ZoneRow)
           /\ ChildAsAsked(db.movement_speeds, last.pre.movement_speeds, last.id,
                           last.metrics, MoveFields, MoveRow)

\* a successful save over an existing metric whose zones are short of a field
\* and whose movement fields are whole: the zone row stays, the movement row
\* is rewritten
C9_Witness ==
    /\ last.op = "save_health_metrics" /\ last.ok
    /\ Part(last.metrics, ZoneFields) /\ ~Whole(last.metrics, ZoneFields)
    /\ Whole(last.metrics, MoveFields)
    /\ \E c \in last.pre.heart_rate_zones : c.health_metric_id = last.id
    /\ db.movement_speeds # last.pre.movement_speeds

(***************************************************************************)
(* seed_database(engine, config).  Dictionaries of the configuration are   *)
(* functions from the keys they hold; a persistence error is an input of   *)
(* the step it hits.  None as an id is 0 (both are false in a condition).  *)
(***************************************************************************)
\* an INSERT whose conflict clause never acts: always a new row
insert_user_always(rows, nextid, username, password_hash, role) ==
    [rows |-> rows \cup {[id |-> nextid + 1, username |-> username,
                          password_hash |-> password_hash, role |-> role]},
     seq |-> nextid + 1, id |-> nextid + 1]

\* INSERT INTO users (username, password_hash, role) ... ON CONFLICT (username)
\* DO UPDATE SET password_hash = :password_hash RETURNING id
upsert_user_query(rows, nextid, username, password_hash, role) ==
    IF \E r \in rows : r.username = username
    THEN LET old == CHOOSE r \in rows : r.username = username
         IN  [rows |-> {IF r.username = username
                        THEN [r EXCEPT !.password_hash = password_hash]
                        ELSE r : r \in rows},
              seq |-> nextid, id |-> old.id]
    ELSE [rows |-> rows \cup {[id |-> nextid + 1, username |-> username,
                               password_hash |-> password_hash, role |-> role]},
          seq |-> nextid + 1, id |-> nextid + 1]

\* groups.group_name is unique: an INSERT of a name that is there raises
unique_group_name(rows, group_name) == \E g \in rows : g.group_name = group_name

\* the id of the row of that name would be returned when there is one
create_group_or_find(d, q, group_name, description, created_by_username, campaign_start_date, fail) ==
    IF unique_group_name(d.groups, group_name)
    THEN [db |-> d, seq |-> q,
          group_id |-> (CHOOSE g \in d.groups : g.group_name = group_name).id,
          executed |-> FALSE]
    ELSE [db |-> d, seq |-> q, group_id |-> 0, executed |-> FALSE]

\* create_group: the creator is looked up by username; the INSERT has no
\* conflict clause; any exception is caught and None returned
create_group(d, q, group_name, description, created_by_username, campaign_start_date, fail) ==
    IF ~ \E u \in d.users : u.username = created_by_username
    THEN [db |-> d, seq |-> q, group_id |-> 0, executed |-> FALSE]
    ELSE IF fail \/ unique_group_name(d.groups, group_name)
    THEN [db |-> engine_connect(d, d, FALSE), seq |-> q, group_id |-> 0,
          executed |-> FALSE]
    ELSE LET creator_id == (CHOOSE u \in d.users :
                                u.username = created_by_username).id
             row == [id |-> q.groups + 1, group_name |-> group_name,
                     description |-> description, created_by |-> creator_id,
                     campaign_start_date |-> campaign_start_date]
         IN  [db |-> engine_connect(d, [d EXCEPT !.groups = d.groups \cup {row}], TRUE),
              seq |-> [q EXCEPT !.groups = q.groups + 1],
              group_id |-> q.groups + 1, executed |-> TRUE]

\* participant.get('groups', []), a single string made a list of one
group_names_of(participant) ==
    LET group_names == Get(participant, "groups", [list |-> <<>>])
    IN  IF "str" \in DOMAIN group_names THEN <<group_names.str>> ELSE group_names.list

\* the loop over the names would stop at the first name without an id
names_until_unknown(group_names, group_map) ==
    LET unknown == {j \in 1..Len(group_names) : Get(group_map, group_names[j], 0) = 0}
    IN  IF unknown = {} THEN group_names
        ELSE SubSeq(group_names, 1,
                    (CHOOSE j \in unknown : \A k \in unknown : j <= k) - 1)

\* the names of group_names whose group_map.get(name) is an id
assigned_names(group_names, group_map) ==
    SelectSeq(group_names, LAMBDA n : Get(group_map, n, 0) # 0)

\* INSERT INTO user_groups ... ON CONFLICT (user_id, group_id) DO NOTHING, per name
group_assign_query(rows, participant_id, names, group_map) ==
    rows \cup {[user_id |-> participant_id, group_id |-> group_map[names[j]]] :
                j \in 1..Len(names)}

DefaultDataDays == 60
SeedInterval == 5

\* the data generated for one participant: health metrics, questionnaires,
\* anomaly scores.  fk says whether a write for a user without a row raises.
seed_generate(d, q, r, k, participant_id, start_date, today, fk) ==
    The({The({The({The({
        [db |-> save_anomaly_scores(qins.db, participant_id, agen.data,
                                    IF fk THEN 1 ELSE 0).db,
         seq |-> imp.seq,
         rng |-> agen.rng,
         success |-> imp.ret,
         questionnaire_data |-> qgen.data]
        : agen \in {generate_mock_anomaly_data(k, participant_id, start_date, today,
                                               SeedInterval)}})
        : qins \in {insert_questionnaire_data(imp.db, qgen.data,
                                              IF fk THEN 1 ELSE 0)}})
        : qgen \in {generate_questionnaire_data(imp.rng, participant_id, start_date,
                                                today)}})
        : imp \in {import_mock_data(d, q, r, k, participant_id, start_date, today,
                                    FALSE, FALSE, NoFails)}})

Has(entry, keys) == keys \subseteq DOMAIN entry

Admin == [username |-> "admin", password |-> 1]
AdminNoPassword == [username |-> "root"]
GroupOne == [name |-> "g1", description |-> "first", created_by |-> "admin"]
GroupDated ==
    [name |-> "g2", description |-> "second", created_by |-> "admin",
     campaign_start_date |-> 1]
GroupNoDescription == [name |-> "g0", created_by |-> "admin"]
GroupOrphan == [name |-> "g3", description |-> "third", created_by |-> "nobody"]
GroupByParticipant == [name |-> "g4", description |-> "fourth", created_by |-> "p1"]
POne ==
    [username |-> "p1", password |-> 1, groups |-> [list |-> <<"g1", "g2">>],
     data_days |-> 0]
PTwo == [username |-> "p2", password |-> 2, groups |-> [str |-> "g1"], data_days |-> 1]
PThree ==
    [username |-> "p3", password |-> 1, groups |-> [list |-> <<"gx", "g2">>],
     generate_data |-> FALSE]
PNoPassword == [username |-> "p4"]

\* configurations: empty, short of a section, whole, with a group entry short
\* of its description, with an unknown creator and an unknown group, and with
\* a creator that is the username of a participant
Configs ==
    {EmptyDict,
     [admins |-> <<Admin>>, groups |-> <<GroupOne>>],
     [admins |-> <<AdminNoPassword, Admin>>, groups |-> <<GroupOne, GroupDated>>,
      participants |-> <<POne, PTwo>>],
     [admins |-> <<Admin>>, groups |-> <<GroupNoDescription, GroupOne>>,
      participants |-> <<POne>>],
     [admins |-> <<Admin>>, groups |-> <<GroupOrphan, GroupDated>>,
      participants |-> <<PNoPassword, PThree, POne>>],
     [admins |-> <<Admin>>, groups |-> <<GroupByParticipant>>,
      participants |-> <<PTwo>>]}

\* the databases seed_database finds: as created, or seeded before
SeededDb ==
    [FirstDb EXCEPT
        !.users = @ \cup
            {[id |-> 3, username |-> "admin", password_hash |-> generate_password_hash(0),
              role |-> "admin"]},
        !.groups =
            {[id |-> 1, group_name |-> "g1", description |-> "old", created_by |-> 3,
              campaign_start_date |-> 0]}]

\* seeded before, with the health data of the participants 2 and 1 for date 1
SeededWithData ==
    The({import_range(first.db, first.seq, first.rng, 0, 1, 1, 1, FALSE, FALSE, NoFails) :
            first \in {import_range(SeededDb,
                                    [users |-> 3, groups |-> 1, health_metrics |-> 0],
                                    random_seed(0), 0, 2, 1, 1, FALSE, FALSE, NoFails)}})

SeedFound ==
    {[db |-> EmptyDb, seq |-> [users |-> 0, groups |-> 0, health_metrics |-> 0]],
     [db |-> SeededDb, seq |-> [users |-> 3, groups |-> 1, health_metrics |-> 0]],
     [db |-> SeededWithData.db, seq |-> SeededWithData.seq]}

InitSeed ==
    /\ \E f \in SeedFound :
        /\ db = f.db
        /\ seq = f.seq
    /\ \E p \in Processes :
        /\ salt = p.salt
        /\ rng = random_seed(p.seed)
    /\ runs = {}
    /\ ncalls = 0
    /\ last = [op |-> "none"]
    /\ sd = Idle

Stages == <<"admins", "groups", "participants", "data">>

\* the participants would be processed before the groups
StageSwapped(stage) ==
    IF stage = "admins" THEN "participants"
    ELSE IF stage = "participants" THEN "groups"
    ELSE IF stage = "groups" THEN "data"
    ELSE "finished"

\* the loops of seed_database follow one another
StageAfter(stage) ==
    IF stage = "admins" THEN "groups"
    ELSE IF stage = "groups" THEN "participants"
    ELSE IF stage = "participants" THEN "data"
    ELSE "finished"

Entries(stage) == IF stage = "data" THEN sd.config.participants ELSE sd.config[stage]

Step(changes) == changes @@ sd

Visit == [i |-> sd.i + 1, visited |-> sd.visited \cup {<<sd.pc, sd.i>>}]

\* only the admins section would be asked for
config_has_admins(config) == "admins" \in DOMAIN config

\* "if not config" and "'admins' not in config or ..." both pass
config_complete(config) ==
    DOMAIN config # {} /\ Has(config, {"admins", "groups", "participants"})

SeedStart ==
    \E config \in Configs, today \in Dates :
        /\ sd.pc = "idle"
        /\ last.op = "none"
        /\ sd' = IF ~config_complete(config)
                 THEN [pc |-> "returned", ret |-> "None", config |-> config, pre |-> db]
                 ELSE [pc |-> "admins", ret |-> "running", config |-> config,
                       today |-> today, start |-> db, i |-> 1, admin_ids |-> EmptyDict,
                       group_map |-> EmptyDict, participant_ids |-> EmptyDict,
                       log |-> <<>>, visited |-> {}, failed |-> FALSE,
                       upsert |-> [username |-> "none"], group |-> [name |-> "none"],
                       data |-> [user_id |-> 0]]
        /\ UNCHANGED <<db, seq, salt, rng, ncalls, last, runs>>

SeedAdvance ==
    /\ sd.pc \in {"admins", "groups", "participants", "data"}
    /\ sd.i > Len(Entries(sd.pc))
    /\ sd' = Step([pc |-> StageAfter(sd.pc), i |-> 1,
                   ret |-> IF StageAfter(sd.pc) = "finished" THEN "True" ELSE sd.ret])
    /\ UNCHANGED <<db, seq, salt, rng, ncalls, last, runs>>

\* what an upsert of a user did: the rows it found, the id it returned and
\* whether its transaction committed
Upserted(ids, username, password, up, committed) ==
    [ids |-> ids, username |-> username, password |-> password, pre |-> db.users,
     pre_user_groups |-> db.user_groups, id |-> up.id, committed |-> committed]

\* one pass of the loop over config['admins']
SeedAdmin ==
    /\ sd.pc = "admins"
    /\ sd.i <= Len(sd.config.admins)
    /\ \E admin \in {sd.config.admins[sd.i]}, fail \in BOOLEAN :
        /\ fail => (~sd.failed /\ Has(admin, {"username", "password"}))
        /\ IF ~Has(admin, {"username", "password"})
           THEN \* KeyError, caught by the try of the pass
                /\ sd' = Step(Visit)
                /\ UNCHANGED <<db, seq>>
           ELSE \E up \in {upsert_user_query(db.users, seq.users, admin.username,
                                             generate_password_hash(admin.password),
                                             "admin")} :
                /\ db' = engine_begin(db, [db EXCEPT !.users = up.rows], fail)
                /\ seq' = IF fail THEN seq ELSE [seq EXCEPT !.users = up.seq]
                /\ sd' = Step(
                    [log |-> Append(sd.log, <<"admin_upsert", admin.username>>),
                     failed |-> sd.failed \/ fail,
                     admin_ids |-> IF fail THEN sd.admin_ids
                                   ELSE (admin.username :> up.id) @@ sd.admin_ids,
                     upsert |-> IF fail THEN sd.upsert
                                ELSE Upserted("admin_ids", admin.username, admin.password, up, TRUE)]
                    @@ Visit)
    /\ UNCHANGED <<salt, rng, ncalls, last, runs>>

\* one pass of the loop over config['groups']: no try of its own, so a
\* KeyError of the entry leaves through the except of the whole function
SeedGroup ==
    /\ sd.pc = "groups"
    /\ sd.i <= Len(sd.config.groups)
    /\ \E group \in {sd.config.groups[sd.i]}, fail \in BOOLEAN :
        /\ fail => (~sd.failed /\ Has(group, {"name", "description", "created_by"})
                    /\ \E u \in db.users : u.username = group.created_by)
        /\ IF ~Has(group, {"name", "description", "created_by"})
           THEN /\ sd' = Step([pc |-> "aborted", ret |-> "False"] @@ Visit)
                /\ UNCHANGED <<db, seq>>
           ELSE \E res \in {create_group(db, seq, group.name, group.description,
                                         group.created_by,
                                         Get(group, "campaign_start_date", 0), fail)} :
                /\ db' = res.db
                /\ seq' = res.seq
                /\ sd' = Step(
                    [log |-> IF res.executed
                             THEN Append(sd.log, <<"group_create", group.name>>)
                             ELSE sd.log,
                     failed |-> sd.failed \/ fail,
                     group |-> [name |-> group.name, description |-> group.description,
                                pre |-> db.groups, group_id |-> res.group_id,
                                creator_found |-> \E u \in db.users :
                                                    u.username = group.created_by],
                     group_map |-> (group.name :> res.group_id) @@ sd.group_map]
                    @@ Visit)
    /\ UNCHANGED <<salt, rng, ncalls, last, runs>>

MembershipEvents(username, names) ==
    [j \in 1..Len(names) |-> <<"membership_insert", username, names[j]>>]

\* the id would be recorded once the memberships are inserted
record_after_memberships(participant_ids, username, participant_id, fail) ==
    IF fail # "none" THEN participant_ids
    ELSE (username :> participant_id) @@ participant_ids

\* participant_ids[participant['username']] = participant_id, as soon as the
\* upsert returned its row and before the memberships are inserted
record_participant_id(participant_ids, username, participant_id, fail) ==
    IF fail = "upsert" THEN participant_ids
    ELSE (username :> participant_id) @@ participant_ids

\* one pass of the loop over config['participants']: the upsert of the user
\* and the inserts of its memberships share one transaction; fail names the
\* statement that raises
SeedParticipant ==
    /\ sd.pc = "participants"
    /\ sd.i <= Len(sd.config.participants)
    /\ \E participant \in {sd.config.participants[sd.i]},
          fail \in {"none", "upsert", "membership"} :
        /\ fail # "none" => (~sd.failed /\ Has(participant, {"username", "password"}))
        /\ fail = "membership"
                => assigned_names(group_names_of(participant), sd.group_map) # <<>>
        /\ IF ~Has(participant, {"username", "password"})
           THEN /\ sd' = Step(Visit)
                /\ UNCHANGED <<db, seq>>
           ELSE \E up \in {upsert_user_query(db.users, seq.users, participant.username,
                                             generate_password_hash(participant.password),
                                             "participant")},
                   names \in {assigned_names(group_names_of(participant), sd.group_map)} :
                /\ db' = engine_begin(
                            db,
                            [db EXCEPT !.users = up.rows,
                                       !.user_groups = group_assign_query(
                                            @, up.id, names, sd.group_map)],
                            fail # "none")
                /\ seq' = IF fail = "upsert" THEN seq ELSE [seq EXCEPT !.users = up.seq]
                /\ sd' = Step(
                    [log |-> IF fail = "membership"
                             THEN sd.log \o <<<<"participant_upsert", participant.username>>,
                                              MembershipEvents(participant.username,
                                                               names)[1]>>
                             ELSE Append(sd.log,
                                         <<"participant_upsert", participant.username>>)
                                  \o (IF fail = "upsert" THEN <<>>
                                      ELSE MembershipEvents(participant.username, names)),
                     failed |-> sd.failed \/ fail # "none",
                     participant_ids |-> record_participant_id(
                                            sd.participant_ids, participant.username,
                                            up.id, fail),
                     upsert |-> IF fail = "upsert" THEN sd.upsert
                                ELSE Upserted("participant_ids", participant.username, participant.password,
                                              up, fail = "none")]
                    @@ Visit)
    /\ UNCHANGED <<salt, rng, ncalls, last, runs>>

\* one pass of the second loop over config['participants']
SeedData ==
    /\ sd.pc = "data"
    /\ sd.i <= Len(sd.config.participants)
    /\ \E participant \in {sd.config.participants[sd.i]}, fk \in BOOLEAN :
        LET participant_id == IF Has(participant, {"username"})
                              THEN Get(sd.participant_ids, participant.username, 0)
                              ELSE 0
            start_date == sd.today - Get(participant, "data_days", DefaultDataDays)
        IN  IF participant_id # 0 /\ Get(participant, "generate_data", TRUE)
            THEN /\ fk => ~ \E u \in db.users : u.id = participant_id
                 /\ \E res \in {seed_generate(db, seq, rng, salt, participant_id,
                                              start_date, sd.today, fk)} :
                        /\ db' = res.db
                        /\ seq' = res.seq
                        /\ rng' = res.rng
                        /\ sd' = Step(
                            [log |-> Append(sd.log,
                                            <<"generated_data", participant.username>>),
                             data |-> [user_id |-> participant_id,
                                       data_days |-> Get(participant, "data_days",
                                                         DefaultDataDays),
                                       start_date |-> start_date, pre |-> db,
                                       pre_seq |-> seq, pre_rng |-> rng,
                                       success |-> res.success,
                                       questionnaire_data |-> res.questionnaire_data]]
                            @@ Visit)
            ELSE /\ ~fk
                 /\ sd' = Step(Visit)
                 /\ UNCHANGED <<db, seq, rng>>
    /\ UNCHANGED <<salt, ncalls, last, runs>>

NextSeed ==
    \/ SeedStart
    \/ SeedAdmin
    \/ SeedGroup
    \/ SeedParticipant
    \/ SeedData
    \/ SeedAdvance

SpecSeed == InitSeed /\ [][NextSeed]_vars

(***************************************************************************)
(* Properties of seed_database.                                            *)
(***************************************************************************)
Seeding == sd.pc \notin {"idle", "returned"}

FiveStageRank(event) ==
    IF event[1] = "admin_upsert" THEN 1
    ELSE IF event[1] = "group_create" THEN 2
    ELSE IF event[1] = "participant_upsert" THEN 3
    ELSE IF event[1] = "membership_insert" THEN 4
    ELSE 5

LoopRank(event) ==
    IF event[1] = "admin_upsert" THEN 1
    ELSE IF event[1] = "group_create" THEN 2
    ELSE IF event[1] \in {"participant_upsert", "membership_insert"} THEN 3
    ELSE 4

InOrder(log, Rank(_)) ==
    \A i, j \in 1..Len(log) : i < j => Rank(log[i]) <= Rank(log[j])

\* C5 as stated: the operations of a run come in the order of five stages,
\* admin upserts, group creations, participant upserts, membership inserts,
\* generated-data writes, none before the stage before it is over.
C5_FiveStagesInOrder == Seeding => InOrder(sd.log, FiveStageRank)

StageIndex(stage) == CHOOSE k \in 1..Len(Stages) : Stages[k] = stage

\* C5 amended: the run has four loops in the order admins, groups,
\* participants, generated data, and no pass of a loop is made before every
\* entry of the loops before it was visited; the membership inserts of a
\* participant follow its upsert directly, within its pass, so they may come
\* before the upsert of a later participant; every admin upsert precedes
\* every group creation, and every participant upsert and membership insert
\* precedes every generated-data write.
C5_FourLoopsInOrder ==
    Seeding =>
        /\ InOrder(sd.log, LoopRank)
        /\ \A v \in sd.visited :
              \A k \in 1..(StageIndex(v[1]) - 1) :
                 \A e \in 1..Len(Entries(Stages[k])) : <<Stages[k], e>> \in sd.visited
        /\ \A i \in 1..Len(sd.log) :
              sd.log[i][1] = "membership_insert"
                 => /\ i > 1
                    /\ sd.log[i - 1][1] \in {"participant_upsert", "membership_insert"}
                    /\ sd.log[i - 1][2] = sd.log[i][2]

\* a finished run in which a membership insert came before the upsert of a
\* later participant, and data was generated after both
C5_Witness ==
    /\ sd.pc = "finished"
    /\ \E i, j, k \in 1..Len(sd.log) :
        /\ i < j /\ j < k
        /\ sd.log[i][1] = "membership_insert"
        /\ sd.log[j][1] = "participant_upsert"
        /\ sd.log[k][1] = "generated_data"

AllVisited ==
    \A k \in 1..Len(Stages) :
        \A e \in 1..Len(Entries(Stages[k])) : <<Stages[k], e>> \in sd.visited

\* C6: a failure while processing one entry of any loop is confined to that
\* entry: the run is never aborted, and when it ends every entry of every
\* loop was processed and it returns True.
C6_FailureConfined ==
    Seeding =>
        /\ sd.pc # "aborted"
        /\ sd.pc = "finished" => (AllVisited /\ sd.ret = "True")

\* C10: when the username of an upserted admin or participant existed, the id
\* returned and recorded is the id of the existing row, and the table holds
\* one row of that username, the existing one with its id and role, and with
\* the hash of the configured password once the pass committed.
C10_ReseedKeepsIdentity ==
    (Seeding /\ sd.upsert.username # "none") =>
        LET u == sd.upsert
            olds == {r \in u.pre : r.username = u.username}
        IN  \A old \in olds :
                /\ u.id = old.id
                /\ sd[u.ids][u.username] = old.id
                /\ {r \in db.users : r.username = u.username}
                     = {[old EXCEPT !.password_hash =
                            IF u.committed THEN generate_password_hash(u.password)
                            ELSE old.password_hash]}
                /\ Cardinality(db.users) = Cardinality(u.pre)

\* an admin and a participant that existed were upserted with a new password,
\* and the run went on to generate data for the participant
C10_Witness ==
    /\ sd.pc = "finished"
    /\ sd.upsert.username # "none"
    /\ sd.upsert.committed
    /\ sd.upsert.ids = "participant_ids"
    /\ \E old \in sd.upsert.pre :
        /\ old.username = sd.upsert.username
        /\ old.password_hash # generate_password_hash(sd.upsert.password)
    /\ "admin" \in DOMAIN sd.admin_ids
    /\ sd.admin_ids["admin"] = 3
    /\ \E r \in db.health_metrics : r.user_id = sd.upsert.id

(***************************************************************************)
(* One call of save_anomaly_scores with records at one-minute intervals    *)
(* (1440 a day, so that a call has several batches) or twice a day.        *)
(***************************************************************************)
InitBatch == InitWith({1})

AnomalyBatches == last.op = "none" /\ AnomalyCall({1, 720})

NextBatch == AnomalyBatches

SpecBatch == InitBatch /\ [][NextBatch]_vars

SavedAnomaly == last.op = "save_anomaly_scores"

C11_ReseedUpdatesDescription ==
    (Seeding /\ sd.group.name # "none") =>
        \A old \in {r \in sd.group.pre : r.group_name = sd.group.name} :
            {r \in db.groups : r.group_name = sd.group.name}
                = {[old EXCEPT !.description = sd.group.description]}

\* the group names a participant entry lists, a single name taken as a list
ListedNames(participant) ==
    IF "groups" \notin DOMAIN participant THEN {}
    ELSE IF "str" \in DOMAIN participant.groups THEN {participant.groups.str}
    ELSE {participant.groups.list[j] : j \in 1..Len(participant.groups.list)}

KnownNames(participant) ==
    {n \in ListedNames(participant) : n \in DOMAIN sd.group_map /\ sd.group_map[n] # 0}

WellFormed(participant) == {"username", "password"} \subseteq DOMAIN participant

\* the participants whose pass is over, in a run no statement of which raised
PassedParticipants ==
    IF Seeding /\ ~sd.failed /\ sd.pc \in {"participants", "data", "finished"}
    THEN {sd.config.participants[e] :
            e \in {x \in 1..Len(sd.config.participants) :
                        <<"participants", x>> \in sd.visited
                        /\ WellFormed(sd.config.participants[x])}}
    ELSE {}

\* C12: a group name without a known id in a participant's 'groups' (a name
\* or a list of names) is skipped: the participant's user row is committed,
\* its memberships are exactly those of its known groups, its id is recorded
\* for the generated-data loop, and that loop generates its data.
C12_UnknownGroupSkipped ==
    \A participant \in PassedParticipants :
        /\ participant.username \in DOMAIN sd.participant_ids
        /\ \E u \in db.users :
            /\ u.username = participant.username
            /\ u.id = sd.participant_ids[participant.username]
            /\ u.password_hash = generate_password_hash(participant.password)
            /\ {m \in db.user_groups : m.user_id = u.id}
                 = {[user_id |-> u.id, group_id |-> sd.group_map[n]] :
                        n \in KnownNames(participant)}
            /\ (sd.pc = "finished" /\ Get(participant, "generate_data", TRUE))
                 => /\ \E k \in 1..Len(sd.log) :
                            sd.log[k] = <<"generated_data", participant.username>>
                    /\ \E r \in db.health_metrics : r.user_id = u.id
                    /\ \E r \in db.anomaly_scores : r.user_id = u.id

\* a finished run with a participant that lists an unknown name before a
\* known one, has the membership of the known one, and has generated data
C12_Witness ==
    /\ sd.pc = "finished"
    /\ \E participant \in PassedParticipants :
        /\ "list" \in DOMAIN participant.groups
        /\ participant.groups.list[1] \notin KnownNames(participant)
        /\ KnownNames(participant) # {}
        /\ \E m \in db.user_groups :
                m.user_id = sd.participant_ids[participant.username]
        /\ \E r \in db.health_metrics :
                r.user_id = sd.participant_ids[participant.username]

\* C13: when no user has the id, or start_date is after end_date,
\* import_mock_data returns False without a call of save_health_metrics and
\* the database is as before; save_health_metrics itself returns False
\* without a statement for an id that is not positive or an empty dictionary.
C13_AbortWithoutWrites ==
    /\ (last.op = "import_mock_data"
        /\ ((~ \E u \in last.pre.users : u.id = last.user_id)
            \/ last.start_date > last.end_date))
            => /\ ~last.ret
               /\ last.exit # "done"
               /\ last.success_count = 0
               /\ last.saves = <<>>
               /\ db = last.pre
    /\ (last.op = "save_health_metrics"
        /\ (last.user_id <= 0 \/ DOMAIN last.metrics = {}))
            => /\ ~last.ok
               /\ last.executed = {}
               /\ db = last.pre

\* a call for an id no user has, on a database that holds health rows
C13_Witness ==
    /\ last.op = "import_mock_data"
    /\ ~ \E u \in last.pre.users : u.id = last.user_id
    /\ last.start_date <= last.end_date
    /\ last.pre.health_metrics # {}
    /\ ~last.ret

\* C14: when the configuration is empty or lacks one of the sections admins,
\* groups, participants, seed_database returns (None) with the database as
\* it found it: no user, group, membership or generated row is written.
C14_ConfigErrorNoWrites ==
    (sd.pc # "idle"
     /\ (DOMAIN sd.config = {}
         \/ ~ ({"admins", "groups", "participants"} \subseteq DOMAIN sd.config)))
        => /\ sd.pc = "returned"
           /\ sd.ret = "None"
           /\ db = sd.pre

\* a configuration with admins and groups but no participants, on a database
\* that holds users and a group
C14_Witness ==
    /\ sd.pc = "returned"
    /\ {"admins", "groups"} \subseteq DOMAIN sd.config
    /\ "participants" \notin DOMAIN sd.config
    /\ db.users # {}
    /\ db.groups # {}

(***************************************************************************)
(* The arithmetic of one generated day, for any outcome of its draws: the  *)
(* five zone noises (normalvariate(0, 5), in tenths of a percent; the      *)
(* deviates random.normalvariate can return reach beyond six sigma), and   *)
(* the movement budget with its three proportions (in hundredths).         *)
(***************************************************************************)
NoiseDraws == {-300, -150, 0, 150, 300}
BudgetDraws == {30, 102, 180}
WalkingDraws == {40, 53, 70}
WalkingFastDraws == {15, 34, 35}
JoggingDraws == {5, 14, 25}

InitDay ==
    /\ db = EmptyDb
    /\ seq = FirstSeq
    /\ salt = 0
    /\ rng = random_seed(0)
    /\ ncalls = 0
    /\ runs = {}
    /\ sd = Idle
    /\ \/ \E noise \in [1..5 -> NoiseDraws] :
            last = [op |-> "zone_draws", noise |-> noise]
       \/ \E b \in BudgetDraws, w \in WalkingDraws, f \in WalkingFastDraws,
             j \in JoggingDraws :
            last = [op |-> "movement_draws", total_active_minutes |-> b,
                    walking_pct |-> w, walking_fast_pct |-> f, jogging_pct |-> j]

ZonesOfDay ==
    /\ last.op = "zone_draws"
    /\ last' = [op |-> "zones", noise |-> last.noise,
                zone_values |-> zone_percentages(last.noise)]
    /\ UNCHANGED <<db, seq, salt, rng, ncalls, runs, sd>>

MovementOfDay ==
    /\ last.op = "movement_draws"
    /\ last' = [op |-> "movement", total_active_minutes |-> last.total_active_minutes,
                walking_pct |-> last.walking_pct,
                walking_fast_pct |-> last.walking_fast_pct,
                jogging_pct |-> last.jogging_pct,
                minutes |-> movement_minutes(last.total_active_minutes, last.walking_pct,
                                             last.walking_fast_pct, last.jogging_pct)]
    /\ UNCHANGED <<db, seq, salt, rng, ncalls, runs, sd>>

NextDay ==
    \/ ZonesOfDay
    \/ MovementOfDay

SpecDay == InitDay /\ [][NextDay]_vars

Sum5(v) == v[1] + v[2] + v[3] + v[4] + v[5]

\* C15: for every outcome of the five noise draws the five zone percentages
\* of a generated day sum to 100 within 0.01 (percentages in thousandths).
C15_ZonesSumTo100 ==
    last.op = "zones"
        => /\ Sum5(last.zone_values) >= 100000 - 10
           /\ Sum5(last.zone_values) <= 100000 + 10

\* C16: for every budget and every outcome of the three proportion draws the
\* four minute values are integers >= 0 whose sum is at most the budget and
\* at least the budget less 3.
C16_MinutesWithinBudget ==
    last.op = "movement"
        => LET total == last.minutes[1] + last.minutes[2] + last.minutes[3]
                        + last.minutes[4]
           IN  /\ \A i \in 1..4 : last.minutes[i] \in Nat
               /\ total <= last.total_active_minutes
               /\ total >= last.total_active_minutes - 3

(***************************************************************************)
(* The records of generate_mock_anomaly_data: scores are in ten-           *)
(* thousandths; last.spikes holds the record numbers of the (date, slot)   *)
(* pairs drawn as anomaly_days and anomaly_times.                          *)
(***************************************************************************)
SpikeDate(i) == last.anomaly_data[i].date

\* C17: every record's score is in [0,1]; at most 3 (date, slot) pairs are
\* designated spikes, at most one per date; exactly the designated spike
\* records carry a non-None label, every other record carries label None.
C17_ExactlySpikesLabelled ==
    SavedAnomaly =>
        /\ \A i \in 1..Len(last.anomaly_data) :
                /\ last.anomaly_data[i].score \in 0..10000
                /\ (last.anomaly_data[i].label # None) <=> (i \in last.spikes)
        /\ Cardinality(last.spikes) <= MaxSpikes
        /\ \A i, j \in last.spikes : SpikeDate(i) = SpikeDate(j) => i = j

(***************************************************************************)
(* The window of the generated-data stage: sd.data holds the participant   *)
(* the stage last generated for, its data_days and the tables before.      *)
(***************************************************************************)
Generated == "data" \in DOMAIN sd /\ sd.data.user_id # 0

\* the dates of the rows of table that the generation for sd.data.user_id added
GeneratedDates(table) ==
    {r.date : r \in {x \in db[table] \ sd.data.pre[table] : x.user_id = sd.data.user_id}}

\* C18: for a participant with data_days = N the health, questionnaire and
\* anomaly rows generated lie on the N calendar dates that end today.
C18_WindowOfNDates ==
    Generated =>
        \A table \in {"health_metrics", "questionnaire_data", "anomaly_scores"} :
            GeneratedDates(table) \subseteq (sd.today - sd.data.data_days + 1)..sd.today

(***************************************************************************)
(* The questionnaire records of the generated-data stage, against those    *)
(* the stage generates for the same participant and window when no date of *)
(* the window has a health row yet.                                        *)
(***************************************************************************)
\* d without the health rows of user_id
NoHealthOf(d, user_id) ==
    [d EXCEPT !.health_metrics = {r \in @ : r.user_id # user_id}]

QuestionnaireFresh ==
    generate_questionnaire_data(
        import_mock_data(NoHealthOf(sd.data.pre, sd.data.user_id), sd.data.pre_seq,
                         sd.data.pre_rng, salt, sd.data.user_id, sd.data.start_date,
                         sd.today, FALSE, FALSE, NoFails).rng,
        sd.data.user_id, sd.data.start_date, sd.today).data

\* C19: the questionnaire records generated for a participant over a window
\* are those generated for the same identifier and window whatever the
\* number of dates the health generation before it skipped.
C19_QuestionnaireScopedToParticipant ==
    Generated => sd.data.questionnaire_data = QuestionnaireFresh

(***************************************************************************)
(* execute_schema_files(engine) and execute_migrations(engine): the .sql   *)
(* files of a directory, sorted by filename, are read and their statements *)
(* executed on the connection of one "with engine.begin()".  A filename is *)
(* the sequence of the digits it starts with; db.catalog holds the         *)
(* statements whose effect is committed, as <<filename, number>>.          *)
(***************************************************************************)
FileNames == {<<0, 0, 1>>, <<0, 0, 2>>, <<0, 1, 0>>, <<2>>}

\* the statements "sql_content.split(';')" finds in the file of that name
StatementsOf(filename) == IF filename = <<0, 0, 2>> THEN 1 ELSE 2

\* the order of Python strings: by the first character that differs, a
\* proper prefix before the longer string
RECURSIVE StrLess(_, _)
StrLess(a, b) ==
    IF b = <<>> THEN FALSE
    ELSE IF a = <<>> THEN TRUE
    ELSE IF Head(a) # Head(b) THEN Head(a) < Head(b)
    ELSE StrLess(Tail(a), Tail(b))

\* sorted(glob.glob(... "*.sql"))
RECURSIVE sorted(_)
sorted(names) ==
    IF names = {} THEN <<>>
    ELSE LET first == CHOOSE n \in names : \A m \in names \ {n} : StrLess(n, m)
         IN  <<first>> \o sorted(names \ {first})

\* the statements of the files k..Len(files), in order, up to the statement
\* that raises (statement failStmt of file failFile; none when failFile = 0)
RECURSIVE statements_until(_, _, _, _)
statements_until(files, k, failFile, failStmt) ==
    IF k > Len(files) THEN <<>>
    ELSE IF k = failFile
    THEN [j \in 1..(failStmt - 1) |-> <<files[k], j>>]
    ELSE [j \in 1..StatementsOf(files[k]) |-> <<files[k], j>>]
            \o statements_until(files, k + 1, failFile, failStmt)

Applied(d, statements) ==
    [d EXCEPT !.catalog = @ \cup {statements[i] : i \in 1..Len(statements)}]

\* were every file executed in a transaction of its own, the files before
\* the one whose statement raises would stay
execute_per_file(d, files, failFile, failStmt) ==
    LET executed == statements_until(files, 1, failFile, failStmt)
        before == IF failFile = 0 THEN executed
                  ELSE statements_until(files, 1, failFile, 1)
    IN  [db |-> Applied(d, before), executed |-> executed, ret |-> failFile = 0]

\* "try: with engine.begin() as conn: for ... in files: ..." then return True,
\* "except Exception: return False"
execute_files(d, files, failFile, failStmt) ==
    LET executed == statements_until(files, 1, failFile, failStmt)
    IN  [db |-> engine_begin(d, Applied(d, executed), failFile # 0),
         executed |-> executed, ret |-> failFile = 0]

\* a directory that is not there or holds no .sql file: nothing is executed
\* and absent is returned
execute_directory(d, exists, names, absent, failFile, failStmt) ==
    IF ~exists \/ names = {}
    THEN [db |-> d, executed |-> <<>>, ret |-> absent]
    ELSE execute_files(d, sorted(names), failFile, failStmt)

execute_schema_files(d, exists, names, failFile, failStmt) ==
    execute_directory(d, exists, names, FALSE, failFile, failStmt)

execute_migrations(d, exists, names, failFile, failStmt) ==
    execute_directory(d, exists, names, TRUE, failFile, failStmt)

\* the catalogs found: of a new database, or with a statement of an earlier run
Catalogs == {{}, {<<<<0, 0, 1>>, 1>>}}

InitFiles ==
    /\ \E catalog \in Catalogs : db = [catalog |-> catalog] @@ EmptyDb
    /\ seq = FirstSeq
    /\ salt = 0
    /\ rng = random_seed(0)
    /\ ncalls = 0
    /\ runs = {}
    /\ last = [op |-> "none"]
    /\ \/ sd = [pc |-> "files", exists |-> FALSE, names |-> {}]
       \/ \E names \in SUBSET FileNames :
            sd = [pc |-> "files", exists |-> TRUE, names |-> names]

\* the statement that raises: none, or statement failStmt of the failFile-th file
FileFailPoints(names) ==
    {<<0, 0>>} \cup
    {<<k, j>> \in (1..Cardinality(names)) \X (1..2) : j <= StatementsOf(sorted(names)[k])}

FilesCall(op, res, fail) ==
    /\ db' = res.db
    /\ last' = [op |-> op, files |-> sorted(sd.names), executed |-> res.executed,
                failFile |-> fail[1], failStmt |-> fail[2], pre |-> db, ret |-> res.ret]
    /\ UNCHANGED <<seq, salt, rng, ncalls, runs, sd>>

ExecuteSchemaFiles ==
    /\ last.op = "none"
    /\ \E fail \in FileFailPoints(sd.names) :
        \E res \in {execute_schema_files(db, sd.exists, sd.names, fail[1], fail[2])} :
            FilesCall("execute_schema_files", res, fail)

ExecuteMigrations ==
    /\ last.op = "none"
    /\ \E fail \in FileFailPoints(sd.names) :
        \E res \in {execute_migrations(db, sd.exists, sd.names, fail[1], fail[2])} :
            FilesCall("execute_migrations", res, fail)

NextFiles ==
    \/ ExecuteSchemaFiles
    \/ ExecuteMigrations

SpecFiles == InitFiles /\ [][NextFiles]_vars

ExecutedFiles == last.op \in {"execute_schema_files", "execute_migrations"}

\* the statements of the files 1..k of last.files
StatementsOfFirst(k) ==
    {<<last.files[i], j>> : i \in 1..k, j \in 1..2} \cap
    {<<f, j>> \in FileNames \X (1..2) : j <= StatementsOf(f)}

CreatorIsAdmin(d) ==
    \A g \in d.groups : \E u \in d.users : u.id = g.created_by /\ u.role = "admin"

\* C21: in every state seed_database reaches from a database whose groups
\* were all created by admins, each group row's created_by is the id of a
\* user whose role is admin.
C21_CreatorIsAdmin ==
    Seeding => CreatorIsAdmin(db)

(***************************************************************************)
(* add_participants_live.py: the participants of a seed file that the      *)
(* database does not hold yet are added, after the groups of the file that *)
(* are missing.  users.username is unique (seed_database upserts ON        *)
(* CONFLICT (username)), so an INSERT of a username that is there raises.  *)
(***************************************************************************)
CURRENT_DATE == 0 - 1    \* group_data.get('campaign_start_date', 'CURRENT_DATE')

\* SELECT username FROM users WHERE role = 'participant', and
\* SELECT id, group_name FROM groups as a dict from name to id
get_existing_data(d) ==
    [existing_participants |-> {u.username : u \in {x \in d.users : x.role = "participant"}},
     existing_groups |->
        [n \in {g.group_name : g \in d.groups} |->
            (CHOOSE g \in d.groups : g.group_name = n).id]]

filter_new_participants(seed_participants, existing_participants) ==
    SelectSeq(seed_participants, LAMBDA p : p.username \notin existing_participants)

\* the INSERTs of missing_groups[i..], on the connection of the transaction
RECURSIVE insert_groups(_, _, _, _, _, _)
insert_groups(st, missing_groups, i, admin_id, fail, unique) ==
    IF i > Len(missing_groups) \/ st.raised THEN st
    ELSE LET group_data == missing_groups[i]
             row == [id |-> st.seq.groups + 1, group_name |-> group_data.name,
                     description |-> Get(group_data, "description", "Participant group"),
                     created_by |-> admin_id,
                     campaign_start_date |-> Get(group_data, "campaign_start_date",
                                                 CURRENT_DATE)]
             conflict == unique /\ \E g \in st.db.groups : g.group_name = group_data.name
         IN  IF fail = i \/ conflict
             THEN [st EXCEPT !.raised = TRUE]
             ELSE insert_groups(
                    [db |-> [st.db EXCEPT !.groups = @ \cup {row}],
                     seq |-> [st.seq EXCEPT !.groups = @ + 1],
                     existing_groups |-> (group_data.name :> row.id) @@ st.existing_groups,
                     raised |-> FALSE],
                    missing_groups, i + 1, admin_id, fail, unique)

\* create_missing_groups: admin_id is the id "SELECT id FROM users WHERE
\* role = 'admin' LIMIT 1" gives (0: no row), fail the number of the INSERT
\* that raises (0: none), unique whether the table refuses a second row of a
\* name
create_missing_groups(d, q, seed_groups_data, existing_groups, admin_id, fail, unique) ==
    LET missing_groups ==
            SelectSeq(seed_groups_data, LAMBDA g : g.name \notin DOMAIN existing_groups)
    IN  IF missing_groups = <<>>
        THEN [db |-> d, seq |-> q, existing_groups |-> existing_groups, exit |-> "none",
              missing |-> 0]
        ELSE IF admin_id = 0
        THEN [db |-> engine_begin(d, d, TRUE), seq |-> q,
              existing_groups |-> existing_groups, exit |-> "1", missing |-> 0]
        ELSE The({[db |-> engine_begin(d, st.db, st.raised), seq |-> st.seq,
                   existing_groups |-> st.existing_groups,
                   exit |-> IF st.raised THEN "1" ELSE "none",
                   missing |-> Len(missing_groups)] :
                st \in {insert_groups([db |-> d, seq |-> q,
                                       existing_groups |-> existing_groups,
                                       raised |-> FALSE],
                                      missing_groups, 1, admin_id, fail, unique)}})

\* the loop of add_participants_to_database from entry i on; attempted lists
\* the usernames an INSERT INTO users was executed for
RECURSIVE insert_participants(_, _, _, _, _)
insert_participants(st, new_participants, i, existing_groups, fail) ==
    IF i > Len(new_participants) \/ st.raised THEN st
    ELSE LET participant == new_participants[i]
             username == participant.username
             group_name == participant.groups
             user_id == st.seq.users + 1
         IN  IF group_name \notin DOMAIN existing_groups
             THEN insert_participants(st, new_participants, i + 1, existing_groups, fail)
             ELSE IF fail = i \/ \E u \in st.db.users : u.username = username
             THEN [st EXCEPT !.raised = TRUE, !.attempted = Append(@, username)]
             ELSE insert_participants(
                    [db |-> [st.db EXCEPT
                                !.users = @ \cup
                                    {[id |-> user_id, username |-> username,
                                      password_hash |->
                                          generate_password_hash(participant.password),
                                      role |-> "participant"]},
                                !.user_groups = @ \cup
                                    {[user_id |-> user_id,
                                      group_id |-> existing_groups[group_name]]}],
                     seq |-> [st.seq EXCEPT !.users = @ + 1],
                     attempted |-> Append(st.attempted, username),
                     raised |-> FALSE],
                    new_participants, i + 1, existing_groups, fail)

\* every participant would be inserted in a transaction of its own
add_participants_each(d, q, new_participants, existing_groups, fail) ==
    The({[db |-> st.db, seq |-> st.seq, attempted |-> st.attempted,
          exit |-> IF st.raised THEN "1" ELSE "none",
          reported |-> IF st.raised THEN 0 ELSE Len(new_participants)] :
            st \in {insert_participants([db |-> d, seq |-> q, attempted |-> <<>>,
                                         raised |-> FALSE],
                                        new_participants, 1, existing_groups, fail)}})

\* add_participants_to_database: one "with engine.begin()" around the loop;
\* reported is the number the success message prints
add_participants_to_database(d, q, new_participants, existing_groups, fail) ==
    The({[db |-> engine_begin(d, st.db, st.raised), seq |-> st.seq,
          attempted |-> st.attempted,
          exit |-> IF st.raised THEN "1" ELSE "none",
          reported |-> IF st.raised THEN 0 ELSE Len(new_participants)] :
            st \in {insert_participants([db |-> d, seq |-> q, attempted |-> <<>>,
                                         raised |-> FALSE],
                                        new_participants, 1, existing_groups, fail)}})

\* the databases the script finds: with an admin, a participant and a group;
\* with a second admin; without an admin
LiveDb ==
    [EmptyDb EXCEPT
        !.users = {[id |-> 1, username |-> "admin",
                    password_hash |-> generate_password_hash(1), role |-> "admin"],
                   [id |-> 2, username |-> "p1",
                    password_hash |-> generate_password_hash(1), role |-> "participant"]},
        !.groups = {[id |-> 1, group_name |-> "g1", description |-> "first",
                     created_by |-> 1, campaign_start_date |-> 1]},
        !.user_groups = {[user_id |-> 2, group_id |-> 1]}]

LiveFound ==
    {[db |-> LiveDb, seq |-> [users |-> 2, groups |-> 1, health_metrics |-> 0]],
     [db |-> [LiveDb EXCEPT !.users = @ \cup
                {[id |-> 3, username |-> "root",
                  password_hash |-> generate_password_hash(2), role |-> "admin"]}],
      seq |-> [users |-> 3, groups |-> 1, health_metrics |-> 0]],
     [db |-> [LiveDb EXCEPT !.users = {u \in @ : u.role # "admin"}, !.groups = {}],
      seq |-> [users |-> 2, groups |-> 1, health_metrics |-> 0]]}

\* an entry of the participants section of a seed file
Entry(username, group_name) ==
    [username |-> username, password |-> 2, groups |-> group_name]

\* seed files: a known and two new participants with a missing group; a
\* username held by an admin; an unknown group; nothing new; a username
\* listed twice; no groups section; three new participants
SeedFiles ==
    {[participants |-> <<Entry("p1", "g1"), Entry("p5", "g1"), Entry("p6", "g2")>>,
      groups |-> <<[name |-> "g1", description |-> "first"],
                   [name |-> "g2", campaign_start_date |-> 2]>>],
     [participants |-> <<Entry("p5", "g1"), Entry("admin", "g1")>>,
      groups |-> <<[name |-> "g1", description |-> "first"]>>],
     [participants |-> <<Entry("p5", "gx"), Entry("p6", "g1")>>,
      groups |-> <<[name |-> "g1", description |-> "first"]>>],
     [participants |-> <<Entry("p1", "g1")>>,
      groups |-> <<[name |-> "g2", description |-> "second"]>>],
     [participants |-> <<Entry("p5", "g2"), Entry("p5", "g2")>>,
      groups |-> <<[name |-> "g2", description |-> "second"],
                   [name |-> "g2", description |-> "again"]>>],
     [participants |-> <<Entry("p6", "g1")>>, groups |-> <<>>],
     [participants |-> <<Entry("p5", "g1"), Entry("p6", "g3"), Entry("p7", "g1")>>,
      groups |-> <<[name |-> "g3", description |-> "third"]>>]}

InitLive ==
    /\ \E f \in LiveFound :
        /\ db = f.db
        /\ seq = f.seq
    /\ salt = 0
    /\ rng = random_seed(0)
    /\ ncalls = 0
    /\ runs = {}
    /\ last = [op |-> "none"]
    /\ sd = [pc |-> "live"]

\* main up to the list of new participants: the seed file is loaded, the
\* existing data read and the known participants filtered out
LiveFilter ==
    /\ sd.pc = "live"
    /\ \E seed \in SeedFiles :
        \E existing \in {get_existing_data(db)} :
          \E new_participants \in {filter_new_participants(seed.participants,
                                        existing.existing_participants)} :
            /\ sd' = [pc |-> IF new_participants = <<>> THEN "exit 0" ELSE "filtered",
                      seed |-> seed, start |-> db,
                      existing_participants |-> existing.existing_participants,
                      existing_groups |-> existing.existing_groups,
                      new_participants |-> new_participants]
            /\ last' = [op |-> "filter_new_participants"]
    /\ UNCHANGED <<db, seq, salt, rng, ncalls, runs>>

\* --dry-run, or the confirmation not given
LiveCancel ==
    /\ sd.pc = "filtered"
    /\ sd' = [sd EXCEPT !.pc = "exit 0"]
    /\ last' = [op |-> "cancelled"]
    /\ UNCHANGED <<db, seq, salt, rng, ncalls, runs>>

LiveCreateGroups ==
    /\ sd.pc = "filtered"
    /\ \E fail \in 0..2, unique \in BOOLEAN,
          admin_id \in IF \E u \in db.users : u.role = "admin"
                       THEN {u.id : u \in {x \in db.users : x.role = "admin"}}
                       ELSE {0} :
        \E res \in {create_missing_groups(db, seq, sd.seed.groups, sd.existing_groups,
                                          admin_id, fail, unique)} :
            /\ fail <= res.missing
            /\ (fail # 0 => unique)
            /\ db' = res.db
            /\ seq' = res.seq
            /\ sd' = [sd EXCEPT !.pc = IF res.exit = "1" THEN "exit 1" ELSE "grouped",
                                !.existing_groups = res.existing_groups]
            /\ last' = [op |-> "create_missing_groups", pre |-> db, exit |-> res.exit,
                        fail |-> fail]
    /\ UNCHANGED <<salt, rng, ncalls, runs>>

LiveAddParticipants ==
    /\ sd.pc = "grouped"
    /\ \E fail \in 0..Len(sd.new_participants) :
        \E res \in {add_participants_to_database(db, seq, sd.new_participants,
                                                 sd.existing_groups, fail)} :
            /\ fail # 0 => sd.new_participants[fail].groups \in DOMAIN sd.existing_groups
            /\ db' = res.db
            /\ seq' = res.seq
            /\ sd' = [sd EXCEPT !.pc = IF res.exit = "1" THEN "exit 1" ELSE "done"]
            /\ last' = [op |-> "add_participants_to_database", pre |-> db,
                        attempted |-> res.attempted, exit |-> res.exit,
                        reported |-> res.reported, fail |-> fail]
    /\ UNCHANGED <<salt, rng, ncalls, runs>>

NextLive ==
    \/ LiveFilter
    \/ LiveCancel
    \/ LiveCreateGroups
    \/ LiveAddParticipants

SpecLive == InitLive /\ [][NextLive]_vars

(***************************************************************************)
(* Properties of add_participants_live.                                    *)
(***************************************************************************)
Added == last.op = "add_participants_to_database"

UsernamesOf(d) == {u.username : u \in d.users}

\* C22: after filter_new_participants and add_participants_to_database every
\* users and user_groups row that existed before is unchanged, and no INSERT
\* was attempted for a username that users already held.
C22_OnlyNewParticipants ==
    Added =>
        /\ sd.start.users \subseteq db.users
        /\ sd.start.user_groups \subseteq db.user_groups
        /\ \A i \in 1..Len(last.attempted) :
                last.attempted[i] \notin UsernamesOf(sd.start)

\* what the filter does ensure: every users and user_groups row that existed
\* before is unchanged, and no INSERT is attempted for a username that a user
\* of role participant already held; a username held by a user of another
\* role is not filtered out and its INSERT is attempted.
C22_OnlyNewAmongParticipants ==
    Added =>
        /\ sd.start.users \subseteq db.users
        /\ sd.start.user_groups \subseteq db.user_groups
        /\ \A i \in 1..Len(last.attempted) :
                \A u \in sd.start.users :
                    u.username = last.attempted[i] => u.role # "participant"

\* a seed file that lists a participant the database holds was processed and
\* its other participants were added
C22_Witness ==
    /\ Added
    /\ last.exit = "none"
    /\ \E i \in 1..Len(sd.seed.participants) :
            \E u \in sd.start.users :
                u.username = sd.seed.participants[i].username /\ u.role = "participant"
    /\ db.users # sd.start.users

(***************************************************************************)
(* Failures of insert_questionnaire_data.                                  *)
(***************************************************************************)
\* C23: when one record of the list given to insert_questionnaire_data
\* fails to persist, the other records of the list are persisted.
C23_FailureConfinedToRecord ==
    (last.op = "insert_questionnaire_data" /\ ~last.ok) =>
        \E skipped \in 1..Len(last.questionnaire_data) :
            \A i \in 1..Len(last.questionnaire_data) :
                i # skipped => last.questionnaire_data[i] \in db.questionnaire_data

(***************************************************************************)
(* append_participants.py: participants read from a CSV file or typed in   *)
(* are validated against the seed file and appended to its participants.   *)
(* sd holds the seed data and the batch, last what the script did.         *)
(***************************************************************************)
\* the usernames of seed_data['participants'], as a set
get_existing_participant_ids(seed_data) ==
    IF "participants" \in DOMAIN seed_data
    THEN {seed_data.participants[i].username : i \in 1..Len(seed_data.participants)}
    ELSE {}

get_existing_groups(seed_data) ==
    IF "groups" \in DOMAIN seed_data
    THEN {seed_data.groups[i].name : i \in 1..Len(seed_data.groups)}
    ELSE {}

\* False when an id of the batch is an existing username; the format of the
\* id and an unknown group only print a warning
validate_participants(new_participants, existing_ids, existing_groups) ==
    \A i \in 1..Len(new_participants) : new_participants[i].id \notin existing_ids

\* passwords[i] is what generate_password() returns for the i-th participant
append_participants_to_seed(seed_data, new_participants, passwords) ==
    LET participants == IF "participants" \in DOMAIN seed_data
                        THEN seed_data.participants ELSE <<>>
    IN  [participants |->
            participants \o
            [i \in 1..Len(new_participants) |->
                [username |-> new_participants[i].id, password |-> passwords[i],
                 groups |-> new_participants[i].group, generate_data |-> FALSE]]]
        @@ seed_data

\* what secrets.choice may produce
Passwords == {"s3cret", "Pa55word"}

ParticipantIds == {"FOD001", "FOD003", "X9"}
GroupNames == {"g1", "gx"}

\* the rows of the CSV file or of the interactive input: up to MaxBatch
MaxBatch == 2
Batches ==
    UNION {[1..n -> [id : ParticipantIds, group : GroupNames]] : n \in 0..MaxBatch}

SeedEntry(username) ==
    [username |-> username, password |-> "old", groups |-> "g1", generate_data |-> TRUE]

\* seed files: without a participants section, with one and with two participants
SeedDatas ==
    {[groups |-> <<[name |-> "g1"]>>],
     [groups |-> <<[name |-> "g1"]>>, participants |-> <<SeedEntry("FOD001")>>],
     [participants |-> <<SeedEntry("FOD002"), SeedEntry("FOD001")>>]}

InitAppend ==
    /\ db = EmptyDb
    /\ seq = FirstSeq
    /\ salt = 0
    /\ rng = random_seed(0)
    /\ ncalls = 0
    /\ runs = {}
    /\ last = [op |-> "none"]
    /\ \E seed_data \in SeedDatas, new_participants \in Batches :
        sd = [pc |-> "append", seed_data |-> seed_data,
              new_participants |-> new_participants]

\* main up to the confirmation
AppendValidate ==
    /\ sd.pc = "append"
    /\ sd' = [sd EXCEPT !.pc =
                IF sd.new_participants = <<>> THEN "exit 0"
                ELSE IF validate_participants(sd.new_participants,
                            get_existing_participant_ids(sd.seed_data),
                            get_existing_groups(sd.seed_data))
                THEN "validated" ELSE "exit 1"]
    /\ last' = [op |-> "validate_participants"]
    /\ UNCHANGED <<db, seq, salt, rng, ncalls, runs>>

\* the confirmation is not given
AppendCancel ==
    /\ sd.pc = "validated"
    /\ sd' = [sd EXCEPT !.pc = "exit 0"]
    /\ last' = [op |-> "cancelled"]
    /\ UNCHANGED <<db, seq, salt, rng, ncalls, runs>>

\* append_participants_to_seed and save_seed_file
AppendToSeed ==
    /\ sd.pc = "validated"
    /\ \E passwords \in [1..Len(sd.new_participants) -> Passwords] :
        sd' = [sd EXCEPT !.pc = "saved",
                         !.seed_data = append_participants_to_seed(
                                            sd.seed_data, sd.new_participants, passwords)]
    /\ last' = [op |-> "append_participants_to_seed", pre |-> sd.seed_data]
    /\ UNCHANGED <<db, seq, salt, rng, ncalls, runs>>

NextAppend ==
    \/ AppendValidate
    \/ AppendCancel
    \/ AppendToSeed

SpecAppend == InitAppend /\ [][NextAppend]_vars

Appended == last.op = "append_participants_to_seed"

Before == IF "participants" \in DOMAIN last.pre THEN last.pre.participants ELSE <<>>

\* C24: after validate_participants accepted a batch and
\* append_participants_to_seed appended it, every username occurs exactly
\* once in seed_data['participants'] and every entry that was there before
\* is unchanged at its position.
C24_UsernamesOccurOnce ==
    Appended =>
        /\ \A i, j \in 1..Len(sd.seed_data.participants) :
                sd.seed_data.participants[i].username
                    = sd.seed_data.participants[j].username => i = j
        /\ SubSeq(sd.seed_data.participants, 1, Len(Before)) = Before

(***************************************************************************)
(* What import_mock_data returns.                                          *)
(***************************************************************************)
Imported == last.op = "import_mock_data"

ADateSaved == \E i \in 1..Len(last.saves) : last.saves[i].ok

\* the dates of the window of sd.data that held a health row of the participant
WindowPresent ==
    {r.date : r \in {x \in sd.data.pre.health_metrics :
                        x.user_id = sd.data.user_id /\ x.date >= sd.data.start_date
                        /\ x.date <= sd.today}}

\* C25 as stated: import_mock_data returns True iff a date was saved in the
\* call, and a skip-policy call over a range whose dates all hold a row
\* returns False.
C25_AllPresentReturnsFalse ==
    Imported =>
        /\ last.ret <=> ADateSaved
        /\ (~last.overwrite /\ last.exit = "done" /\ AllPresent) => ~last.ret

\* C25 amended: import_mock_data returns True iff a date was saved in the
\* call; a skip-policy call whose dates all hold a row and are skipped
\* returns False with the tables as they were, and seed_database takes the
\* generation for a participant whose window is all present as failed.
C25_TrueIffADateSaved ==
    /\ Imported =>
        /\ last.ret <=> ADateSaved
        /\ last.ret <=> last.success_count > 0
        /\ (~last.overwrite /\ last.exit = "done" /\ AllPresent /\ last.saves = <<>>)
                => (~last.ret /\ db = last.pre)
    /\ Generated =>
        /\ sd.data.success <=> \E r \in db.health_metrics \ sd.data.pre.health_metrics :
                                    r.user_id = sd.data.user_id
        /\ (WindowPresent = sd.data.start_date..sd.today) => ~sd.data.success

\* a skip-policy call of an existing user over dates that all hold a row,
\* every one skipped: nothing went wrong and False is returned
C25_Witness ==
    /\ Imported
    /\ ~last.overwrite
    /\ last.exit = "done"
    /\ AllPresent
    /\ last.saves = <<>>
    /\ ~last.ret

(***************************************************************************)
(* The transaction of a participant in seed_database.  sd.upsert holds the *)
(* last upsert that returned a row, with the tables it found.              *)
(***************************************************************************)
ParticipantUpserted == Seeding /\ sd.upsert.username # "none" /\ sd.upsert.ids = "participant_ids"

\* the entries of config['participants'] the data stage has passed
DataPassed ==
    {i \in 1..Len(sd.config.participants) : <<"data", i>> \in sd.visited}

LoggedGenerated(username) ==
    \E k \in 1..Len(sd.log) : sd.log[k] = <<"generated_data", username>>

\* C26: the upsert of a participant and its membership inserts commit or roll
\* back together; the id is recorded in participant_ids before the
\* memberships, so after a rollback it stays recorded and the generated-data
\* stage is still attempted for that participant.
C26_UpsertAndMembershipsTogether ==
    ParticipantUpserted =>
        LET u == sd.upsert
            memberships == {m \in db.user_groups : m.user_id = u.id}
        IN  /\ u.username \in DOMAIN sd.participant_ids
            /\ sd.participant_ids[u.username] = u.id
            /\ IF u.committed
               THEN /\ \E r \in db.users :
                        /\ r.id = u.id
                        /\ r.username = u.username
                        /\ r.password_hash = generate_password_hash(u.password)
                    /\ \A i \in 1..Len(sd.config.participants) :
                            (/\ <<"participants", i>> \in sd.visited
                             /\ WellFormed(sd.config.participants[i])
                             /\ sd.config.participants[i].username = u.username)
                                => \A n \in KnownNames(sd.config.participants[i]) :
                                        [user_id |-> u.id, group_id |-> sd.group_map[n]]
                                            \in memberships
               ELSE /\ db.users = u.pre
                    /\ db.user_groups = u.pre_user_groups
            /\ \A i \in DataPassed :
                    (/\ Has(sd.config.participants[i], {"username"})
                     /\ sd.config.participants[i].username = u.username
                     /\ Get(sd.config.participants[i], "generate_data", TRUE))
                        => LoggedGenerated(u.username)

\* a membership insert of a new participant raised: no user row, no
\* membership, and the data stage was attempted for the recorded id
C26_Witness ==
    /\ ParticipantUpserted
    /\ ~sd.upsert.committed
    /\ ~ \E r \in db.users : r.id = sd.upsert.id
    /\ sd.participant_ids[sd.upsert.username] = sd.upsert.id
    /\ LoggedGenerated(sd.upsert.username)

(***************************************************************************)
(* A configured group that create_group does not create.  sd.group holds   *)
(* the last pass of the loop over config['groups'], with the rows found.   *)
(***************************************************************************)
GroupTried == Seeding /\ sd.group.name # "none"

NameExisted == \E g \in sd.group.pre : g.group_name = sd.group.name

\* the names group_map maps to None
NamesWithoutId == {n \in DOMAIN sd.group_map : sd.group_map[n] = 0}

MembershipLogged(name) ==
    \E k \in 1..Len(sd.log) :
        /\ sd.log[k][1] = "membership_insert"
        /\ sd.log[k][3] = name

\* the memberships of the groups of that name, in a user_groups table
MembershipsOf(user_groups, name) ==
    {m \in user_groups : \E g \in db.groups : g.group_name = name /\ g.id = m.group_id}

\* C27: when the name of a configured group already exists, or its creator
\* is not found, create_group returns None and leaves groups unchanged; the
\* name is mapped to no id, and no membership of that group is inserted
\* during the run, also when a group of that name exists.
C27_ExistingGroupMapsToNoId ==
    /\ (GroupTried /\ (NameExisted \/ ~sd.group.creator_found)) =>
            /\ sd.group.group_id = 0
            /\ db.groups = sd.group.pre
            /\ sd.group_map[sd.group.name] = 0
    /\ Seeding =>
            \A n \in NamesWithoutId :
                /\ ~MembershipLogged(n)
                /\ MembershipsOf(db.user_groups, n) = MembershipsOf(sd.start.user_groups, n)

\* a participant that lists an existing group the run mapped to no id was
\* committed without a membership of it
C27_Witness ==
    /\ ParticipantUpserted
    /\ sd.upsert.committed
    /\ \E i \in 1..Len(sd.config.participants), n \in NamesWithoutId :
            /\ <<"participants", i>> \in sd.visited
            /\ WellFormed(sd.config.participants[i])
            /\ sd.config.participants[i].username = sd.upsert.username
            /\ n \in ListedNames(sd.config.participants[i])
            /\ \E g \in db.groups :
                    /\ g.group_name = n
                    /\ [user_id |-> sd.upsert.id, group_id |-> g.id] \notin db.user_groups

(***************************************************************************)
(* The transaction of add_participants_to_database.                        *)
(***************************************************************************)
Raised == Added /\ last.exit = "1"

\* the entries of new_participants whose group is not in existing_groups,
\* and the others
UnknownGroup ==
    {i \in 1..Len(sd.new_participants) :
        sd.new_participants[i].groups \notin DOMAIN sd.existing_groups}

KnownGroup == (1..Len(sd.new_participants)) \ UnknownGroup

AttemptedUsernames == {last.attempted[k] : k \in 1..Len(last.attempted)}

\* C28: add_participants_to_database inserts the new participants and their
\* memberships in one transaction: when an INSERT raises, no participant and
\* no membership of the run is committed; a participant whose group is
\* unknown is skipped without a user row, and is still counted in the
\* number of added participants the run reports.
C28_SingleTransaction ==
    Added =>
        /\ Raised =>
                /\ db.users = last.pre.users
                /\ db.user_groups = last.pre.user_groups
        /\ ~Raised =>
                /\ last.reported = Len(sd.new_participants)
                /\ \A i \in KnownGroup :
                        \E u \in db.users \ last.pre.users :
                            /\ u.username = sd.new_participants[i].username
                            /\ [user_id |-> u.id,
                                group_id |-> sd.existing_groups[
                                                sd.new_participants[i].groups]]
                                    \in db.user_groups
        /\ \A i \in UnknownGroup :
                (\A j \in KnownGroup : sd.new_participants[j].username
                                            # sd.new_participants[i].username)
                    => /\ sd.new_participants[i].username \notin AttemptedUsernames
                       /\ sd.new_participants[i].username
                            \notin UsernamesOf(db) \ UsernamesOf(last.pre)

\* the INSERT of a username held by an admin raised after the INSERT of
\* another participant of the run, and neither is in users
C28_Witness ==
    /\ Raised
    /\ Len(last.attempted) >= 2
    /\ \E u \in last.pre.users :
            /\ u.username = last.attempted[Len(last.attempted)]
            /\ u.role # "participant"
    /\ last.attempted[1] \notin UsernamesOf(db)

\* a run that skipped a participant of an unknown group and reported it
C28_WitnessCounted ==
    /\ Added
    /\ ~Raised
    /\ UnknownGroup # {}
    /\ KnownGroup # {}
    /\ last.reported = Len(sd.new_participants)
    /\ Cardinality(db.users \ last.pre.users) < last.reported

(***************************************************************************)
(* excluded_days.py.  A date is its proleptic ordinal, so that ordinal 1   *)
(* is a Monday; a row of excluded_days is its group, date and reason, and  *)
(* the conflict target (group_id, date) is its key.                        *)
(***************************************************************************)
\* date.isoweekday() would number Monday 1 and Sunday 7
isoweekday(date) == ((date + 6) % 7) + 1

\* date.weekday(): Monday is 0 and Sunday is 6
weekday(date) == (date + 6) % 7

Saturday == 5

ExKey(r, group_id, date) == r.group_id = group_id /\ r.date = date

\* INSERT INTO excluded_days ... ON CONFLICT (group_id, date) DO UPDATE SET
\* reason; False when the statement or the commit raises
add_excluded_day(d, group_id, date, reason, fail) ==
    IF fail THEN [db |-> engine_connect(d, d, FALSE), ret |-> FALSE]
    ELSE [db |-> engine_connect(
                    d,
                    [d EXCEPT !.excluded_days =
                        {r \in @ : ~ExKey(r, group_id, date)}
                            \cup {[group_id |-> group_id, date |-> date,
                                   reason |-> reason]}],
                    TRUE),
          ret |-> TRUE]

\* DELETE FROM excluded_days WHERE group_id = :group_id AND date = :date
remove_excluded_day(d, group_id, date, fail) ==
    IF fail THEN [db |-> engine_connect(d, d, FALSE), ret |-> FALSE]
    ELSE [db |-> engine_connect(
                    d,
                    [d EXCEPT !.excluded_days = {r \in @ : ~ExKey(r, group_id, date)}],
                    TRUE),
          ret |-> TRUE]

\* the while loop of add_all_saturdays from current_date; failing holds the
\* dates whose upsert raises
RECURSIVE saturdays_loop(_, _, _, _, _)
saturdays_loop(st, group_id, current_date, end_date, failing) ==
    IF ~(current_date <= end_date) THEN st
    ELSE IF weekday(current_date) = Saturday
    THEN The({saturdays_loop(
                [db |-> res.db,
                 added_count |-> IF res.ret THEN st.added_count + 1
                                 ELSE st.added_count,
                 attempted |-> st.attempted \cup {current_date}],
                group_id, current_date + 1, end_date, failing) :
            res \in {add_excluded_day(st.db, group_id, current_date,
                                      "Saturday - no data expected",
                                      current_date \in failing)}})
    ELSE saturdays_loop(st, group_id, current_date + 1, end_date, failing)

add_all_saturdays(d, group_id, start_date, end_date, failing) ==
    saturdays_loop([db |-> d, added_count |-> 0, attempted |-> {}],
                   group_id, start_date, end_date, failing)

\* the dates of the model run from a Saturday to the Saturday after
MinExDate == 6
MaxExDate == 13
MaxExCalls == 2

ExDates == MinExDate..MaxExDate
ExGroups == {1, 2}
ExReasons == {"No data expected", "holiday"}

\* the tables found: empty, or with a Saturday and a Sunday of group 1
ExFound ==
    {[excluded_days |-> {}],
     [excluded_days |-> {[group_id |-> 1, date |-> 6, reason |-> "holiday"],
                         [group_id |-> 1, date |-> 7, reason |-> "holiday"]}]}

InitExcluded ==
    /\ db \in ExFound
    /\ seq = FirstSeq
    /\ salt = 0
    /\ rng = random_seed(0)
    /\ ncalls = 0
    /\ runs = {}
    /\ last = [op |-> "none"]
    /\ sd = [pc |-> "excluded"]

ExAdd ==
    /\ ncalls < MaxExCalls
    /\ \E group_id \in ExGroups, date \in ExDates, reason \in ExReasons,
          fail \in BOOLEAN :
        \E res \in {add_excluded_day(db, group_id, date, reason, fail)} :
            /\ db' = res.db
            /\ last' = [op |-> "add_excluded_day", group_id |-> group_id,
                        date |-> date, reason |-> reason, ret |-> res.ret,
                        pre |-> db]
    /\ ncalls' = ncalls + 1
    /\ UNCHANGED <<seq, salt, rng, runs, sd>>

ExRemove ==
    /\ ncalls < MaxExCalls
    /\ \E group_id \in ExGroups, date \in ExDates, fail \in BOOLEAN :
        \E res \in {remove_excluded_day(db, group_id, date, fail)} :
            /\ db' = res.db
            /\ last' = [op |-> "remove_excluded_day", group_id |-> group_id,
                        date |-> date, ret |-> res.ret, pre |-> db,
                        after_add |-> /\ last.op = "add_excluded_day"
                                      /\ last.ret
                                      /\ last.group_id = group_id
                                      /\ last.date = date]
    /\ ncalls' = ncalls + 1
    /\ UNCHANGED <<seq, salt, rng, runs, sd>>

ExAddAllSaturdays ==
    /\ ncalls < MaxExCalls
    /\ \E group_id \in ExGroups, start_date \in ExDates, end_date \in ExDates :
        \E failing \in SUBSET {date \in start_date..end_date :
                                    weekday(date) = Saturday} :
          \E res \in {add_all_saturdays(db, group_id, start_date, end_date, failing)} :
            /\ db' = res.db
            /\ last' = [op |-> "add_all_saturdays", group_id |-> group_id,
                        start_date |-> start_date, end_date |-> end_date,
                        ret |-> res.added_count, pre |-> db,
                        attempted |-> res.attempted, failing |-> failing]
    /\ ncalls' = ncalls + 1
    /\ UNCHANGED <<seq, salt, rng, runs, sd>>

NextExcluded ==
    \/ ExAdd
    \/ ExRemove
    \/ ExAddAllSaturdays

SpecExcluded == InitExcluded /\ [][NextExcluded]_vars

(***************************************************************************)
(* Properties of the excluded days.                                        *)
(***************************************************************************)
\* an ordinal is a Saturday when it leaves 6 on division by 7
SaturdaysIn(start_date, end_date) == {date \in start_date..end_date : date % 7 = 6}

OneRowPerKey(rows) ==
    \A r1, r2 \in rows :
        (r1.group_id = r2.group_id /\ r1.date = r2.date) => r1 = r2

SaturdayRow(group_id, date) ==
    [group_id |-> group_id, date |-> date, reason |-> "Saturday - no data expected"]

\* C29: add_all_saturdays(group, start, end) upserts a row for exactly the
\* Saturdays from start to end and for no other date, returns the number of
\* upserts that succeeded, keeps one row per (group, date) when repeated,
\* overwriting only the reason, and writes nothing and returns 0 when
\* start > end; a remove_excluded_day after an add_excluded_day leaves no
\* row of that (group, date).
C29_ExactlyTheSaturdays ==
    /\ OneRowPerKey(db.excluded_days)
    /\ last.op = "add_all_saturdays" =>
            LET saturdays == SaturdaysIn(last.start_date, last.end_date)
                written == saturdays \ last.failing
            IN  /\ last.attempted = saturdays
                /\ last.ret = Cardinality(written)
                /\ db.excluded_days =
                        {r \in last.pre.excluded_days :
                            ~(r.group_id = last.group_id /\ r.date \in written)}
                        \cup {SaturdayRow(last.group_id, date) : date \in written}
                /\ last.start_date > last.end_date =>
                        (last.ret = 0 /\ db = last.pre)
    /\ (last.op = "remove_excluded_day" /\ last.ret) =>
            /\ ~ \E r \in db.excluded_days : ExKey(r, last.group_id, last.date)
            /\ db.excluded_days =
                    {r \in last.pre.excluded_days :
                        ~ExKey(r, last.group_id, last.date)}

\* add_all_saturdays over a range with two Saturdays and other days, for a
\* group that held a row with another reason for one of them: two upserts,
\* and still one row for that Saturday
C29_Witness ==
    /\ last.op = "add_all_saturdays"
    /\ last.ret = 2
    /\ last.end_date - last.start_date + 1 > 2
    /\ \E r \in last.pre.excluded_days :
            /\ r.group_id = last.group_id
            /\ r.date \in last.attempted
            /\ r.reason # "Saturday - no data expected"
            /\ r \notin db.excluded_days
            /\ SaturdayRow(r.group_id, r.date) \in db.excluded_days
    /\ Cardinality(db.excluded_days) = Cardinality(last.pre.excluded_days) + 1

\* a remove_excluded_day that followed the add_excluded_day of its row
C29_WitnessRemoved ==
    /\ last.op = "remove_excluded_day"
    /\ last.after_add
    /\ last.ret
    /\ \E r \in last.pre.excluded_days : ExKey(r, last.group_id, last.date)

\* add_all_saturdays with start > end
C29_WitnessEmptyRange ==
    /\ last.op = "add_all_saturdays"
    /\ last.start_date > last.end_date
    /\ last.pre.excluded_days # {}

(***************************************************************************)
(* The data volume stored with a health metric.                            *)
(***************************************************************************)
Saved == last.op = "save_health_metrics" /\ last.ok

\* the data_volume of the health_metrics row the call returned
StoredVolume == (CHOOSE r \in db.health_metrics : r.id = last.id).data_volume

\* C30: the stored data_volume is 2344, plus 40 if any zone percentage is
\* present, plus 16 if any minutes field is present, while a child row is
\* written only if all of its fields are present: an input with some but
\* not all fields of a child stores a volume that counts a row that is not
\* written.
C30_VolumeCountsUnwrittenChild ==
    Saved =>
        /\ StoredVolume = 2344
                          + (IF Part(last.metrics, ZoneFields) THEN 40 ELSE 0)
                          + (IF Part(last.metrics, MoveFields) THEN 16 ELSE 0)
        /\ ("heart_rate_zones" \in last.executed) = Whole(last.metrics, ZoneFields)
        /\ ("movement_speeds" \in last.executed) = Whole(last.metrics, MoveFields)
        /\ (Part(last.metrics, ZoneFields) /\ ~Whole(last.metrics, ZoneFields))
                => /\ StoredVolume >= 2344 + 40
                   /\ db.heart_rate_zones = last.pre.heart_rate_zones

\* a new metric whose zones are short of a field: the volume counts the 40
\* bytes of a zone row, and the metric has no zone row
C30_Witness ==
    /\ Saved
    /\ Part(last.metrics, ZoneFields)
    /\ ~Whole(last.metrics, ZoneFields)
    /\ StoredVolume = 2344 + 40 + 16
    /\ ~ \E c \in db.heart_rate_zones : c.health_metric_id = last.id
    /\ \E c \in db.movement_speeds : c.health_metric_id = last.id
====
